---- MODULE Spec2Model ----
(***************************************************************************)
(* A model of the store_agent conversation pipeline:                       *)
(*   - execute_sql_query of agents/product_filter_agent.py (validation,    *)
(*     execution, result windowing) and of sql_assistant_agent.py;         *)
(*   - the product-filter graph turn: product_filter_node ->               *)
(*     query_executor_node -> summary_node, and extract_result_content;    *)
(*   - the SQL assistant graph: call_model / execute_tool;                 *)
(*   - the stored chat history of helpers/redis_helper.py and the session  *)
(*     of invoke_orchestrator (load, clear above the ceiling, save), with  *)
(*     the pagination context of product_filter_node (SessionSpec);        *)
(*   - two turns of one session running at the same time, interleaved at   *)
(*     the reads and writes of the session key (ConcurrentSpec).           *)
(* Text is modelled as sequences of one-character strings, so that trim,   *)
(* case folding, prefix tests, substring tests and the LIMIT/cue parsing   *)
(* are computed the way the Python code computes them.                     *)
(***************************************************************************)
EXTENDS Integers, Sequences, FiniteSets, TLC

\* ------------------------------------------------------------------ bounds
\* The largest number of rows the data store returns for one query.
MaxRows == 12
\* The largest number of rows the data store returns to the SQL assistant.
SA_MaxRows == 2
\* The largest number of model calls of one SQL assistant graph run.
MaxModelCalls == 2
\* The largest number of turns of one session.
MaxTurns == 2

\* ------------------------------------------------------------------- state
\* The number of turns the session has had (the other variables are declared
\* with the messages they hold).
VARIABLE turn

\* ------------------------------------------------------- Python str helpers
LowerAlpha == <<"a","b","c","d","e","f","g","h","i","j","k","l","m","n","o","p","q","r","s","t","u","v","w","x","y","z">>
UpperAlpha == <<"A","B","C","D","E","F","G","H","I","J","K","L","M","N","O","P","Q","R","S","T","U","V","W","X","Y","Z">>
DigitChars == <<"0","1","2","3","4","5","6","7","8","9">>

SetMin(S) == CHOOSE x \in S : \A y \in S : x <= y
SetMax(S) == CHOOSE x \in S : \A y \in S : x >= y
Min(a, b) == IF a <= b THEN a ELSE b

\* str.isspace() of one character.
IsSpace(c) == c \in {" ", "\t", "\n"}

\* The characters of the texts of this model.
Chars ==
    {LowerAlpha[i] : i \in 1..26} \cup {UpperAlpha[i] : i \in 1..26}
    \cup {DigitChars[i] : i \in 1..10}
    \cup {" ", "\t", "\n", "*", "=", "'", "_", ">", "(", ")", ";", ",", "\"", "\\", "%"}

\* One character of str.upper() / str.lower(), as a table over Chars.
UpperChar ==
    [c \in Chars |->
        IF \E i \in 1..26 : LowerAlpha[i] = c
        THEN UpperAlpha[CHOOSE i \in 1..26 : LowerAlpha[i] = c]
        ELSE c]

LowerChar ==
    [c \in Chars |->
        IF \E i \in 1..26 : UpperAlpha[i] = c
        THEN LowerAlpha[CHOOSE i \in 1..26 : UpperAlpha[i] = c]
        ELSE c]

\* str.upper(), str.lower().
Upper(s) == [i \in 1..Len(s) |-> UpperChar[s[i]]]
Lower(s) == [i \in 1..Len(s) |-> LowerChar[s[i]]]

\* str.strip(): leading and trailing whitespace removed.
Strip(s) ==
    LET keep == {i \in 1..Len(s) : ~IsSpace(s[i])}
    IN  IF keep = {} THEN <<>> ELSE SubSeq(s, SetMin(keep), SetMax(keep))

\* str.startswith(p).
StartsWith(s, p) == Len(s) >= Len(p) /\ SubSeq(s, 1, Len(p)) = p

\* The start positions of p in s; "p in s" is Occurrences(s, p) # {}.
Occurrences(s, p) ==
    {i \in 1..(Len(s) - Len(p) + 1) : SubSeq(s, i, i + Len(p) - 1) = p}

Contains(s, p) == Occurrences(s, p) # {}

\* s.split(p)[-1]: the text after the last occurrence of p (p occurs in s).
AfterLast(s, p) == SubSeq(s, SetMax(Occurrences(s, p)) + Len(p), Len(s))

\* s.strip().split() is not empty.
HasToken(s) == Strip(s) # <<>>

\* s.strip().split()[0]: the first whitespace-delimited token (HasToken(s)).
FirstToken(s) ==
    LET st == Strip(s)
        sp == {i \in 1..Len(st) : IsSpace(st[i])}
    IN  IF sp = {} THEN st ELSE SubSeq(st, 1, SetMin(sp) - 1)

IsDigitChar(c) == c \in {DigitChars[i] : i \in 1..10}

\* str.isdigit(): not empty and every character a digit.
IsDigit(s) == s # <<>> /\ \A i \in 1..Len(s) : IsDigitChar(s[i])

DigitVal(c) == (CHOOSE i \in 1..10 : DigitChars[i] = c) - 1

\* int(s) of a digit string.
RECURSIVE ToInt(_)
ToInt(s) ==
    IF s = <<>> THEN 0
    ELSE ToInt(SubSeq(s, 1, Len(s) - 1)) * 10 + DigitVal(s[Len(s)])

\* The first position >= i of s that holds no whitespace (Len(s)+1 if none).
SpaceRunEnd(s, i) ==
    LET stop == {j \in i..Len(s) : ~IsSpace(s[j])}
    IN  IF stop = {} THEN Len(s) + 1 ELSE SetMin(stop)

\* The first position >= i of s that holds no digit (Len(s)+1 if none).
DigitRunEnd(s, i) ==
    LET stop == {j \in i..Len(s) : ~IsDigitChar(s[j])}
    IN  IF stop = {} THEN Len(s) + 1 ELSE SetMin(stop)

\* re.search(r"w\s+(\d+)", s): the start positions at which it matches.
WordNumMatches(s, w) ==
    {i \in Occurrences(s, w) :
        LET a == i + Len(w)
            b == SpaceRunEnd(s, a)
        IN  b > a /\ DigitRunEnd(s, b) > b}

\* int(match.group(1)) of the leftmost match of r"w\s+(\d+)".
WordNumValue(s, w) ==
    LET i == SetMin(WordNumMatches(s, w))
        b == SpaceRunEnd(s, i + Len(w))
    IN  ToInt(SubSeq(s, b, DigitRunEnd(s, b) - 1))

\* re.search(r"(\d+)\s+w", s): the start positions at which it matches.
NumWordMatches(s, w) ==
    {i \in 1..Len(s) :
        /\ IsDigitChar(s[i])
        /\ LET d == DigitRunEnd(s, i)
               e == SpaceRunEnd(s, d)
           IN  e > d /\ StartsWith(SubSeq(s, e, Len(s)), w)}

\* int(match.group(1)) of the leftmost match of r"(\d+)\s+w".
NumWordValue(s, w) ==
    LET i == SetMin(NumWordMatches(s, w))
    IN  ToInt(SubSeq(s, i, DigitRunEnd(s, i) - 1))

\* ------------------------------------------------------------ the data store
\* The rows cursor.fetchall() returns, in the data store's order (row ids,
\* here in descending order, as after ORDER BY ... DESC).
Rows(n) == [i \in 1..n |-> n + 1 - i]

\* What the data store does during one call of execute_sql_query:
\*   fault "none"            every call succeeds and fetchall() returns rows
\*   fault "no_conn"         get_db_connection() returns None
\*   fault "connect_raises"  get_db_connection() raises (not a mysql Error)
\*   fault "execute_error"   cursor.execute raises a mysql Error
\*   fault "execute_other"   cursor.execute raises another exception
\*   fault "fetch_error"     cursor.fetchall raises a mysql Error
\*   serializable            json.dumps accepts the fetched rows (no Decimal
\*                           or datetime value in them)
\*   schema                  the rows are those of DESCRIBE (columns Field, Type)
DbFaults ==
    {"no_conn", "connect_raises", "execute_error", "execute_other", "fetch_error"}

\* The data store as the product-filter tool sees it.
PF_DbOutcomes ==
    [fault : DbFaults, rows : {<<>>}, serializable : {TRUE}]
    \cup [fault : {"none"}, rows : {Rows(n) : n \in 0..MaxRows},
          serializable : {TRUE}]
    \cup [fault : {"none"}, rows : {Rows(1), Rows(MaxRows)},
          serializable : {FALSE}]

\* The data store as the SQL assistant's tool sees it (it never serializes the
\* rows, and their number plays no part beyond empty or not).
SA_DbOutcomes ==
    [fault : DbFaults, rows : {<<>>}, schema : {FALSE}]
    \cup [fault : {"none"}, rows : {Rows(n) : n \in 0..SA_MaxRows},
          schema : BOOLEAN]

\* ------------------------------------------------------ query validation
kwSELECT == <<"S","E","L","E","C","T">>
kwDESCRIBE == <<"D","E","S","C","R","I","B","E">>
kwSHOW == <<"S","H","O","W">>
kwLIMIT == <<"L","I","M","I","T">>

allowed_prefixes == {kwSELECT, kwDESCRIBE, kwSHOW}

forbidden_keywords ==
    {<<"I","N","S","E","R","T">>,
     <<"U","P","D","A","T","E">>,
     <<"D","E","L","E","T","E">>,
     <<"D","R","O","P">>,
     <<"C","R","E","A","T","E">>,
     <<"A","L","T","E","R">>,
     <<"T","R","U","N","C","A","T","E">>}

MsgOnlySelect ==
    "Error: Only SELECT, DESCRIBE, and SHOW queries are allowed for security reasons."
MsgForbidden ==
    "Error: Query contains forbidden keywords. Only SELECT, DESCRIBE, and SHOW queries are allowed."

\* --------------------------- execute_sql_query, agents/product_filter_agent.py
\* query_upper = query.strip().upper()
PF_QueryUpper(query) == Upper(Strip(query))

\* A variant of the allow-list test that accepts the prefix anywhere in the
\* text ("prefix in query_upper" for startswith).
PF_PrefixAllowed_Anywhere(query_upper) ==
    \E prefix \in allowed_prefixes : Contains(query_upper, prefix)

\* The allow-list test on query_upper.
PF_PrefixAllowed(query_upper) ==
    \E prefix \in allowed_prefixes : StartsWith(query_upper, prefix)

\* The forbidden-keyword test: substring containment in query_upper.
PF_HasForbidden(query_upper) ==
    \E keyword \in forbidden_keywords : Contains(query_upper, keyword)

wTop == <<"t","o","p">>
wShow == <<"s","h","o","w">>
wLimit == <<"l","i","m","i","t">>
wResult == <<"r","e","s","u","l","t">>
wItem == <<"i","t","e","m">>
wProduct == <<"p","r","o","d","u","c","t">>

\* The default number of rows shown.
DefaultLimit == 10

\* The count-cue scan over a lower-cased text: the ordered patterns
\* top\s+(\d+), show\s+(\d+), limit\s+(\d+), (\d+)\s+results?, (\d+)\s+items?,
\* (\d+)\s+products?; the first that matches gives the requested count.
\* -1 when the text holds none of "top", "show", "limit", or no pattern matches.
CueCount(user_query) ==
    IF ~(Contains(user_query, wTop) \/ Contains(user_query, wShow)
            \/ Contains(user_query, wLimit))
    THEN -1
    ELSE IF WordNumMatches(user_query, wTop) # {}
         THEN WordNumValue(user_query, wTop)
    ELSE IF WordNumMatches(user_query, wShow) # {}
         THEN WordNumValue(user_query, wShow)
    ELSE IF WordNumMatches(user_query, wLimit) # {}
         THEN WordNumValue(user_query, wLimit)
    ELSE IF NumWordMatches(user_query, wResult) # {}
         THEN NumWordValue(user_query, wResult)
    ELSE IF NumWordMatches(user_query, wItem) # {}
         THEN NumWordValue(user_query, wItem)
    ELSE IF NumWordMatches(user_query, wProduct) # {}
         THEN NumWordValue(user_query, wProduct)
    ELSE -1

\* A variant of result_limit without the default of 10: with no LIMIT and no
\* cue every fetched row is shown.
PF_ResultLimit_NoDefault(query, count) ==
    LET query_upper == PF_QueryUpper(query)
    IN  IF Contains(query_upper, kwLIMIT)
        THEN LET tail == AfterLast(query_upper, kwLIMIT)
             IN  IF HasToken(tail) /\ IsDigit(FirstToken(tail))
                 THEN ToInt(FirstToken(tail))
                 ELSE DefaultLimit
        ELSE LET requested_count == CueCount(Lower(query))
             IN  IF requested_count >= 0
                 THEN Min(requested_count, count)
                 ELSE count

\* result_limit for a query and the number of fetched rows: the number after
\* the last LIMIT of the upper-cased query when that token is all digits;
\* without LIMIT in the query, the count cue found in the lower-cased QUERY
\* text (the tool receives no other text), capped at count; else 10.
PF_ResultLimit(query, count) ==
    LET query_upper == PF_QueryUpper(query)
    IN  IF Contains(query_upper, kwLIMIT)
        THEN LET tail == AfterLast(query_upper, kwLIMIT)
             IN  IF HasToken(tail) /\ IsDigit(FirstToken(tail))
                 THEN ToInt(FirstToken(tail))
                 ELSE DefaultLimit
        ELSE LET requested_count == CueCount(Lower(query))
             IN  IF requested_count >= 0
                 THEN Min(requested_count, count)
                 ELSE DefaultLimit

\* A variant of the response whose has_more is count >= result_limit.
PF_Window_HasMoreOffByOne(query, results) ==
    LET count == Len(results)
        result_limit == PF_ResultLimit(query, count)
    IN  [count |-> count,
         results |-> SubSeq(results, 1, Min(result_limit, count)),
         query |-> query,
         message |-> <<"Query executed successfully. Found ", count,
                       " total results. Showing ", Min(result_limit, count),
                       " results.">>,
         total_available |-> count,
         showing |-> Min(result_limit, count),
         has_more |-> count >= result_limit]

\* A variant of the response that slices the LAST result_limit rows
\* (results[-result_limit:]).
PF_Window_Tail(query, results) ==
    LET count == Len(results)
        result_limit == PF_ResultLimit(query, count)
        showing == Min(result_limit, count)
    IN  [count |-> count,
         results |-> SubSeq(results, count - showing + 1, count),
         query |-> query,
         message |-> <<"Query executed successfully. Found ", count,
                       " total results. Showing ", showing, " results.">>,
         total_available |-> count,
         showing |-> showing,
         has_more |-> count > result_limit]

\* A variant that remembers, across the calls of a session, that a first
\* row was shown before, and leaves it out in later turns.
PF_Window_Remembering(query, results) ==
    LET count == Len(results)
        result_limit == PF_ResultLimit(query, count)
        first == IF turn > 1 THEN 2 ELSE 1
    IN  [count |-> count,
         results |-> SubSeq(results, first, Min(result_limit, count)),
         query |-> query,
         message |-> <<"Query executed successfully. Found ", count,
                       " total results. Showing ", Min(result_limit, count),
                       " results.">>,
         total_available |-> count,
         showing |-> Min(result_limit, count),
         has_more |-> count > result_limit]

\* The response dictionary built from a non-empty fetched row list.
PF_Window(query, results) ==
    LET count == Len(results)
        result_limit == PF_ResultLimit(query, count)
    IN  [count |-> count,
         results |-> SubSeq(results, 1, Min(result_limit, count)),
         query |-> query,
         message |-> <<"Query executed successfully. Found ", count,
                       " total results. Showing ", Min(result_limit, count),
                       " results.">>,
         total_available |-> count,
         showing |-> Min(result_limit, count),
         has_more |-> count > result_limit]

\* A zero-row result dictionary; a message is a tuple of its text parts.
ZeroResult(query, message) ==
    [count |-> 0, results |-> <<>>, query |-> query, message |-> message]

\* The string the tool returns: fmt "json" is json.dumps(data), fmt "repr" is
\* str(data), Python's repr of the dictionary (single-quoted keys).
JsonDumps(data) == [fmt |-> "json", data |-> data]
PyStr(data) == [fmt |-> "repr", data |-> data]

\* A variant that retries cursor.execute once after it raised.
PF_Events_Retry(db) ==
    CASE db.fault = "connect_raises" -> <<"connect_raise">>
      [] db.fault = "no_conn" -> <<"connect_none">>
      [] db.fault \in {"execute_error", "execute_other"} ->
            <<"connect_ok", "cursor", "execute", "execute">>
      [] db.fault = "fetch_error" ->
            <<"connect_ok", "cursor", "execute", "fetchall">>
      [] OTHER ->
            <<"connect_ok", "cursor", "execute", "fetchall", "cursor.close",
              "conn.close">>

\* The data-store calls one execution makes, in order, for outcome db. The
\* except branch closes nothing.
PF_Events(db) ==
    CASE db.fault = "connect_raises" -> <<"connect_raise">>
      [] db.fault = "no_conn" -> <<"connect_none">>
      [] db.fault \in {"execute_error", "execute_other"} ->
            <<"connect_ok", "cursor", "execute">>
      [] db.fault = "fetch_error" ->
            <<"connect_ok", "cursor", "execute", "fetchall">>
      [] OTHER ->
            <<"connect_ok", "cursor", "execute", "fetchall", "cursor.close",
              "conn.close">>

\* The string returned once validation has passed.
PF_Return(query, db) ==
    IF db.fault = "no_conn"
    THEN JsonDumps(ZeroResult(query, <<"Unable to connect to database">>))
    ELSE IF db.fault # "none"
    THEN JsonDumps(ZeroResult(query, <<"Error executing query: ", db.fault>>))
    ELSE IF db.rows = <<>>
    THEN JsonDumps(ZeroResult(query,
            <<"Query executed successfully. No results found.">>))
    ELSE IF ~db.serializable
    THEN JsonDumps(ZeroResult(query, <<"Error executing query: ", "TypeError">>))
    ELSE JsonDumps(PF_Window(query, db.rows))

\* One call of the tool for a query, the data store behaving as db: the
\* returned string, the data-store calls made, and the rows fetched.
PF_execute_sql_query(query, db) ==
    LET query_upper == PF_QueryUpper(query)
    IN  IF ~PF_PrefixAllowed(query_upper)
        THEN [ret |-> PyStr(ZeroResult(query, <<MsgOnlySelect>>)),
              events |-> <<>>, fetched |-> <<>>]
        ELSE IF PF_HasForbidden(query_upper)
        THEN [ret |-> PyStr(ZeroResult(query, <<MsgForbidden>>)),
              events |-> <<>>, fetched |-> <<>>]
        ELSE [ret |-> PF_Return(query, db),
              events |-> PF_Events(db),
              fetched |-> IF db.fault = "none" THEN db.rows ELSE <<>>]

\* --------------------------------------- execute_sql_query, sql_assistant_agent.py
SA_QueryUpper(query) == Upper(Strip(query))

SA_PrefixAllowed(query_upper) ==
    \E prefix \in allowed_prefixes : StartsWith(query_upper, prefix)

\* A variant of the forbidden-keyword test that matches whole words only.
SA_HasForbidden_WholeWord(query_upper) ==
    \E keyword \in forbidden_keywords :
        \E i \in Occurrences(query_upper, keyword) :
            /\ i = 1 \/ IsSpace(query_upper[i - 1])
            /\ i + Len(keyword) > Len(query_upper)
               \/ IsSpace(query_upper[i + Len(keyword)])

SA_HasForbidden(query_upper) ==
    \E keyword \in forbidden_keywords : Contains(query_upper, keyword)

\* The data-store calls one execution makes, in order. Only a mysql Error is
\* caught (and the connection closed); another exception leaves the function.
SA_Events(db) ==
    CASE db.fault = "connect_raises" -> <<"connect_raise">>
      [] db.fault = "no_conn" -> <<"connect_none">>
      [] db.fault = "execute_error" ->
            <<"connect_ok", "cursor", "execute", "conn.close">>
      [] db.fault = "execute_other" -> <<"connect_ok", "cursor", "execute">>
      [] db.fault = "fetch_error" ->
            <<"connect_ok", "cursor", "execute", "fetchall", "conn.close">>
      [] OTHER ->
            <<"connect_ok", "cursor", "execute", "fetchall", "cursor.close",
              "conn.close">>

\* What the tool returns once validation has passed: a str or a dict; kind
\* "exception" when it raises instead.
SA_Return(query, db) ==
    IF db.fault \in {"connect_raises", "execute_other"}
    THEN [kind |-> "exception", text |-> <<db.fault>>]
    ELSE IF db.fault = "no_conn"
    THEN [kind |-> "str",
          text |-> <<"Unable to connect to CaratLane stage database">>]
    ELSE IF db.fault # "none"
    THEN [kind |-> "str", text |-> <<"Error executing query: ", db.fault>>]
    ELSE IF db.rows = <<>>
    THEN [kind |-> "dict",
          data |-> ZeroResult(query,
                     <<"Query executed successfully but returned no results.">>),
          schema |-> FALSE]
    ELSE [kind |-> "dict",
          data |-> [count |-> Len(db.rows), results |-> db.rows, query |-> query],
          schema |-> db.schema]

\* One call of the tool: what it returns, whether it raised instead, the
\* data-store calls made and the rows fetched.
SA_execute_sql_query(query, db) ==
    LET query_upper == SA_QueryUpper(query)
    IN  IF ~SA_PrefixAllowed(query_upper)
        THEN [raised |-> FALSE, ret |-> [kind |-> "str", text |-> <<MsgOnlySelect>>],
              events |-> <<>>, fetched |-> <<>>]
        ELSE IF SA_HasForbidden(query_upper)
        THEN [raised |-> FALSE, ret |-> [kind |-> "str", text |-> <<MsgForbidden>>],
              events |-> <<>>, fetched |-> <<>>]
        ELSE [raised |-> SA_Return(query, db).kind = "exception",
              ret |-> SA_Return(query, db),
              events |-> SA_Events(db),
              fetched |-> IF db.fault = "none" THEN db.rows ELSE <<>>]

\* ------------------------------------------------------------------ inputs
\* The SQL texts the model may put in a tool call: a head, an optional WHERE
\* part, an optional LIMIT part.
qSelectAll ==
    <<"S","E","L","E","C","T"," ","*"," ","F","R","O","M"," ","p","r","o","d",
      "u","c","t">>
qSelectLower ==
    <<"s","e","l","e","c","t"," ","s","k","u"," ","f","r","o","m"," ","p","r",
      "o","d","u","c","t">>
qDescribe ==
    <<"D","E","S","C","R","I","B","E"," ","p","r","o","d","u","c","t">>
qDelete ==
    <<"D","E","L","E","T","E"," ","F","R","O","M"," ","p","r","o","d","u","c",
      "t">>
qWith ==
    <<"W","I","T","H"," ","t"," ","A","S"," ","(","S","E","L","E","C","T"," ",
      "1",")"," ","S","E","L","E","C","T"," ","*"," ","F","R","O","M"," ",
      "t">>
qWhereNote ==
    <<" ","W","H","E","R","E"," ","n","o","t","e"," ","="," ","'","p","l","e",
      "a","s","e"," ","D","E","L","E","T","E"," ","n","o","t","h","i","n","g",
      "'">>
qWhereUpdated ==
    <<" ","W","H","E","R","E"," ","u","p","d","a","t","e","d","_","a","t"," ",
      ">"," ","5">>
qLimit5 ==
    <<" ","L","I","M","I","T"," ","5">>
qLimitLower ==
    <<" ","l","i","m","i","t"," ","3">>

QueryHeads ==
    {qSelectAll,
     qSelectLower,
     <<" "," ","S","e","l","e","c","t"," ","*"," ","F","r","o","m"," ","p","r","o","d","u","c","t">>,
     qDescribe,
     qDelete,
     <<"d","r","o","p"," ","t","a","b","l","e"," ","p","r","o","d","u","c","t">>,
     qWith,
     <<>>}
QueryMids ==
    {<<>>,
     qWhereNote,
     qWhereUpdated,
     <<" ","W","H","E","R","E"," ","t","a","g"," ","="," ","'","t","o","p"," ","5","'">>,
     <<" ","W","H","E","R","E"," ","t","a","g"," ","="," ","'","s","h","o","w"," ","1","2"," ","i","t","e","m","s","'">>}
QueryTails ==
    {<<>>,
     qLimit5,
     qLimitLower,
     <<" ","L","I","M","I","T"," ","1","2"," ","O","F","F","S","E","T"," ","1","2">>,
     <<" ","L","I","M","I","T"," ","1","2",";">>,
     <<" ","L","I","M","I","T">>}
Queries == {h \o m \o t : h \in QueryHeads, m \in QueryMids, t \in QueryTails}

\* The request texts of a turn.
rGold ==
    <<"s","h","o","w"," ","m","e"," ","g","o","l","d"," ","r","i","n","g",
      "s">>
Requests ==
    {<<"s","h","o","w"," ","m","e"," ","t","o","p"," ","5"," ","r","i","n","g","s">>,
     rGold,
     <<" "," "," ">>,
     <<>>}

\* ---------------------------------------------------------------- messages
\* The content of a model response is opaque text; the content of a tool
\* result message is "SQL Query Result: " followed by the tool's string.
TextContent(text) == [kind |-> "text", text |-> text]
ResultContent(result) == [kind |-> "sql_result", result |-> result]

\* "SQL Query Result:" in str(msg.content)
HasResultMarker(content) == content.kind = "sql_result"

\* An AIMessage the model returns.
AIResponse(text, tool_calls) ==
    [type |-> "ai", content |-> TextContent(text), tool_calls |-> tool_calls]

ToolCall(name, args, id) == [name |-> name, args |-> args, id |-> id]
QueryArgs(q) == [query |-> q]
\* An argument dictionary without the "query" key.
WrongArgs(q) == [sql |-> q]

\* What llm_with_tools.invoke may return for a set of SQL texts: text only,
\* one execute_sql_query call with any of the texts, a call of a tool that
\* does not exist, a call whose arguments lack "query", and two responses
\* with two tool calls each.
ModelResponses(texts) ==
    {AIResponse("Here are some rings.", <<>>)}
    \cup {AIResponse("", <<ToolCall("execute_sql_query", QueryArgs(q), "call_1")>>) :
            q \in texts}
    \cup {AIResponse("", <<ToolCall("get_schema", QueryArgs(qDescribe), "call_1")>>),
          AIResponse("", <<ToolCall("execute_sql_query", WrongArgs(qSelectAll), "call_1")>>),
          AIResponse("", <<ToolCall("execute_sql_query", QueryArgs(qSelectAll), "call_1"),
                           ToolCall("execute_sql_query", QueryArgs(qDescribe), "call_2")>>),
          AIResponse("", <<ToolCall("get_schema", QueryArgs(qDescribe), "call_1"),
                           ToolCall("execute_sql_query", QueryArgs(qSelectAll), "call_2")>>)}

\* The responses of the product-filter graph's model.
PF_Responses == ModelResponses(Queries)

\* What llm.invoke may return in summary_node.
SummaryResponses == {AIResponse("Found some products.", <<>>)}

\* --------------------------------------------------------------- JSON text
\* dict.get(key, default)
Get(d, key, default) == IF key \in DOMAIN d THEN d[key] ELSE default

\* str.replace(old, new): the non-overlapping occurrences, left to right.
RECURSIVE Replace(_, _, _)
Replace(s, old, new) ==
    IF Len(s) < Len(old) THEN s
    ELSE IF SubSeq(s, 1, Len(old)) = old
    THEN new \o Replace(SubSeq(s, Len(old) + 1, Len(s)), old, new)
    ELSE <<s[1]>> \o Replace(Tail(s), old, new)

\* The character a JSON escape sequence stands for, by the character after
\* the backslash (the texts of this model hold no \b, \f, \r or \u escape).
JsonEscape == [c \in {"\"", "\\", "/", "n", "t"} |->
                 CASE c = "n" -> "\n" [] c = "t" -> "\t" [] OTHER -> c]

\* json.loads of a JSON string whose body (the text between the quotes) is s,
\* when s was put there unescaped: a bare double quote ends the string early,
\* a control character or an unknown escape is rejected (JSONDecodeError);
\* otherwise the value is s with its escape sequences replaced.
RECURSIVE JsonStringBody(_)
JsonStringBody(s) ==
    IF \A i \in 1..Len(s) : s[i] \notin {"\"", "\\", "\n", "\t"}
    THEN [ok |-> TRUE, value |-> s]
    ELSE IF s[1] \in {"\"", "\n", "\t"}
    THEN [ok |-> FALSE, value |-> <<>>]
    ELSE IF s[1] = "\\"
    THEN IF Len(s) < 2 \/ s[2] \notin DOMAIN JsonEscape
         THEN [ok |-> FALSE, value |-> <<>>]
         ELSE LET rest == JsonStringBody(SubSeq(s, 3, Len(s)))
              IN  [ok |-> rest.ok,
                   value |-> IF rest.ok THEN <<JsonEscape[s[2]]>> \o rest.value
                             ELSE <<>>]
    ELSE LET rest == JsonStringBody(Tail(s))
         IN  [ok |-> rest.ok,
              value |-> IF rest.ok THEN <<s[1]>> \o rest.value ELSE <<>>]

\* The text after "SQL Query Result: " in a message content is one of
\*   fmt "json"  json.dumps(data), which json.loads turns back into data;
\*   fmt "repr"  str(data), which json.loads rejects (single-quoted keys);
\*   fmt "raw"   {"query": "<query>", "count": 0, "results": []} with the
\*               query text placed between the quotes as it is.
\* json.loads of that text succeeds.
JsonLoadsOk(content) ==
    CASE content.result.fmt = "json" -> TRUE
      [] content.result.fmt = "repr" -> FALSE
      [] OTHER -> JsonStringBody(content.result.query).ok

\* The dictionary json.loads returns (JsonLoadsOk(content)).
JsonLoads(content) ==
    IF content.result.fmt = "json" THEN content.result.data
    ELSE [query |-> JsonStringBody(content.result.query).value,
          count |-> 0, results |-> <<>>]

\* ------------------------------------------------- helpers/redis_helper.py
\* bool(message.content): an empty text is false.
ContentTruthy(content) == ~(content.kind = "text" /\ content.text = "")

\* The content "SQL Query executed: <sql_query>" of a compacted message.
ExecutedContent(sql_query) == [kind |-> "executed", sql_query |-> sql_query]

\* The content 'SQL Query Result: {"query": "<sql_query>", "count": 0,
\* "results": []}' that _deserialize_message builds with an f-string.
ReconstructedContent(sql_query) ==
    ResultContent([fmt |-> "raw", query |-> sql_query])

\* re.search(r'"query":\s*"([^"]*(?:\\.[^"]*)*)"', json_content) on the
\* reconstructed text, then the three replace calls: [^"]* stops at the first
\* double quote after "query": ", which the closing quote of the pattern then
\* matches, so group(1) is the query text up to its first double quote (and
\* holds no \" to replace).
RegexQuery(query_text) ==
    LET quotes == {i \in 1..Len(query_text) : query_text[i] = "\""}
        group == IF quotes = {} THEN query_text
                 ELSE SubSeq(query_text, 1, SetMin(quotes) - 1)
    IN  Replace(Replace(group, <<"\\", "n">>, <<" ">>), <<"\\", "t">>, <<" ">>)

\* sql_query of _serialize_message for a content with the result marker:
\* result_data.get("query", "") when the JSON parses, else the regex
\* extraction, which finds no "query": in the str() of a dictionary.
ExtractSqlQuery(content) ==
    IF JsonLoadsOk(content) THEN Get(JsonLoads(content), "query", <<>>)
    ELSE IF content.result.fmt = "repr" THEN <<>>
    ELSE RegexQuery(content.result.query)

\* The tool_calls list of the compact dictionary: an execute_sql_query call
\* keeps its query only (and is left out when its args hold no "query"), any
\* other call is kept whole.
CompactToolCalls(tool_calls) ==
    LET Keep(tc) == tc.name # "execute_sql_query" \/ "query" \in DOMAIN tc.args
        kept == SelectSeq(tool_calls, Keep)
    IN  [i \in 1..Len(kept) |->
            IF kept[i].name = "execute_sql_query"
            THEN [name |-> "execute_sql_query", query |-> kept[i].args.query]
            ELSE kept[i]]

\* _serialize_message: the compact dictionary of a message.
_serialize_message(message) ==
    LET base == [type |-> message.type, content |-> message.content]
        sql_query ==
            IF /\ message.type = "ai"
               /\ ContentTruthy(message.content)
               /\ HasResultMarker(message.content)
            THEN ExtractSqlQuery(message.content)
            ELSE <<>>
        message_dict ==
            IF sql_query # <<>>
            THEN [type |-> message.type,
                  content |-> ExecutedContent(sql_query),
                  sql_query |-> sql_query]
            ELSE base
    IN  IF "tool_calls" \in DOMAIN message /\ message.tool_calls # <<>>
        THEN [k \in DOMAIN message_dict \cup {"tool_calls"} |->
                IF k = "tool_calls" THEN CompactToolCalls(message.tool_calls)
                ELSE message_dict[k]]
        ELSE message_dict

\* HumanMessage(content), SystemMessage(content), AIMessage(content).
HumanMessage(content) == [type |-> "human", content |-> content]
SystemMessage(content) == [type |-> "system", content |-> content]
AIMessage(content) == [type |-> "ai", content |-> content, tool_calls |-> <<>>]

\* A variant whose fallback for an unknown type is HumanMessage.
_deserialize_message_UnknownAsHuman(message_dict) ==
    LET msg_type == Get(message_dict, "type", "human")
        content == Get(message_dict, "content", TextContent(""))
    IN  IF msg_type = "human" THEN HumanMessage(content)
        ELSE IF msg_type = "ai"
        THEN IF "sql_query" \in DOMAIN message_dict
             THEN AIMessage(ReconstructedContent(message_dict.sql_query))
             ELSE AIMessage(content)
        ELSE IF msg_type = "system" THEN SystemMessage(content)
        ELSE HumanMessage(content)

\* A variant that gives an assistant message the tool calls stored with it.
_deserialize_message_KeepsToolCalls(message_dict) ==
    LET msg_type == Get(message_dict, "type", "human")
        content == Get(message_dict, "content", TextContent(""))
        stored_calls == Get(message_dict, "tool_calls", <<>>)
        tool_calls ==
            [i \in 1..Len(stored_calls) |->
                ToolCall(stored_calls[i].name,
                         QueryArgs(Get(stored_calls[i], "query", <<>>)),
                         "call_1")]
    IN  IF msg_type = "human" THEN HumanMessage(content)
        ELSE IF msg_type = "ai"
        THEN IF "sql_query" \in DOMAIN message_dict
             THEN AIMessage(ReconstructedContent(message_dict.sql_query))
             ELSE [AIMessage(content) EXCEPT !.tool_calls = tool_calls]
        ELSE IF msg_type = "system" THEN SystemMessage(content)
        ELSE AIMessage(content)

\* _deserialize_message: the message built from a compact dictionary.
_deserialize_message(message_dict) ==
    LET msg_type == Get(message_dict, "type", "human")
        content == Get(message_dict, "content", TextContent(""))
    IN  IF msg_type = "human" THEN HumanMessage(content)
        ELSE IF msg_type = "ai"
        THEN IF "sql_query" \in DOMAIN message_dict
             THEN AIMessage(ReconstructedContent(message_dict.sql_query))
             ELSE AIMessage(content)
        ELSE IF msg_type = "system" THEN SystemMessage(content)
        ELSE AIMessage(content)

\* A stored JSON value that is not an object, and the JSON null.
JsonString == [json |-> "string"]
JsonNull == [json |-> "null"]

\* _deserialize_message raises for the entry: message_dict.get of a value that
\* is not a dictionary (AttributeError), or a message built with content None
\* (rejected by the message class).
DeserializeRaises(message_dict) ==
    \/ "json" \in DOMAIN message_dict
    \/ Get(message_dict, "content", TextContent("")) = JsonNull

\* A variant of get_messages that gives up at the first entry that fails and
\* returns [].
get_messages_AllOrNothing(stored) ==
    IF \E i \in 1..Len(stored) : DeserializeRaises(stored[i]) THEN <<>>
    ELSE [i \in 1..Len(stored) |-> _deserialize_message(stored[i])]

\* get_messages: the stored dictionaries, deserialized in order; an entry
\* whose deserialization raises is skipped (logged) and the loop continues.
get_messages(stored) ==
    LET Loads(message_dict) == ~DeserializeRaises(message_dict)
        good == SelectSeq(stored, Loads)
    IN  [i \in 1..Len(good) |-> _deserialize_message(good[i])]

\* add_messages: what redis_client.set stores, the serialization of the
\* existing messages (read back with get_messages) followed by the new ones.
add_messages(stored, messages) ==
    LET all_messages == get_messages(stored) \o messages
    IN  [i \in 1..Len(all_messages) |-> _serialize_message(all_messages[i])]

\* messages_json of add_messages for existing_messages read earlier: the
\* serialization of existing_messages + messages.
messages_json(existing_messages, messages) ==
    LET all_messages == existing_messages \o messages
    IN  [i \in 1..Len(all_messages) |-> _serialize_message(all_messages[i])]

None == [type |-> "None"]
NoCall == [impl |-> "none"]
NoTurn == [stored |-> <<>>, past_messages |-> <<>>, load_failed |-> FALSE]
\* No pagination SystemMessage was added to the model's messages.
NoContext == [kind |-> "none", must_add_offset |-> FALSE]

VARIABLES
    graph,          \* which compiled graph runs: "orchestrator_graph" or "sql_assistant_graph"
    pc,             \* the node about to run ("idle" before invoke, "END" after)
    query,          \* state["query"]: the request text of the turn
    chat_history,   \* state["chat_history"]
    response,       \* state["response"]
    lastCall,       \* the latest call of execute_sql_query: query, result, data-store calls, rows fetched
    modelCalls,     \* the number of call_model runs of this graph invocation
    toolRequests,   \* the number of model responses of this graph invocation that carried tool calls
    store,          \* the Redis value of the session key: the list of compact message dictionaries
    turnStart,      \* the stored list when the turn started, and the past_messages the graph was given
    pagination_context, \* the pagination SystemMessage product_filter_node sent to the model in this turn
    decision,       \* what route_via_llm returned in this turn (None before it ran)
    model_errors,   \* the nodes of this turn whose model call raised
    turn_result,    \* what the caller of the graph returned for the request (None while it runs)
    save_outcome,   \* how the save of the turn went: "none" before it, "ok", "get_failed", "set_failed"
    workers         \* the turns of one session that run concurrently: each one's position and local values

vars == <<graph, pc, query, chat_history, response, lastCall, modelCalls,
          toolRequests, store, turn, turnStart, pagination_context, decision,
          model_errors, turn_result, save_outcome, workers>>

Init ==
    /\ graph \in {"orchestrator_graph", "sql_assistant_graph"}
    /\ pc = "idle"
    /\ query = <<>>
    /\ chat_history = <<>>
    /\ response = None
    /\ lastCall = NoCall
    /\ modelCalls = 0
    /\ toolRequests = 0
    /\ store = <<>>
    /\ turn = 0
    /\ turnStart = NoTurn
    /\ pagination_context = NoContext
    /\ decision = None
    /\ model_errors = {}
    /\ turn_result = None
    /\ save_outcome = "none"
    /\ workers = <<>>

\* ------------------------------------------------ the pagination context
wMore == <<"m","o","r","e">>
wNext == <<"n","e","x","t">>

\* pagination_keywords ("show more", "load more" and "more results" contain
\* "more", "next page" contains "next": they match whenever those do).
pagination_keywords ==
    {<<"s","h","o","w"," ">> \o wMore, <<"l","o","a","d"," ">> \o wMore,
     wNext \o <<" ","p","a","g","e">>, wMore \o <<" ","r","e","s","u","l","t","s">>,
     <<"c","o","n","t","i","n","u","e">>,
     <<"p","a","g","i","n","a","t","i","o","n">>,
     wMore,
     wNext,
     <<"a","d","d","i","t","i","o","n","a","l">>,
     <<"f","u","r","t","h","e","r">>}

\* query and any(keyword in query.lower() for keyword in pagination_keywords)
IsPaginationRequest(request) ==
    request # <<>> /\ \E keyword \in pagination_keywords :
                        Contains(Lower(request), keyword)

\* last_query_with_limit: the query of the newest message of the history whose
\* content holds the result marker, parses as JSON after it, and whose "query"
\* contains "LIMIT" in upper case; <<>> stands for None.
LastQueryWithLimit(history) ==
    LET idx == {i \in 1..Len(history) :
                  /\ ContentTruthy(history[i].content)
                  /\ HasResultMarker(history[i].content)
                  /\ JsonLoadsOk(history[i].content)
                  /\ Contains(Get(JsonLoads(history[i].content), "query", <<>>),
                              kwLIMIT)}
    IN  IF idx = {} THEN <<>>
        ELSE Get(JsonLoads(history[SetMax(idx)].content), "query", <<>>)

\* The pagination SystemMessage added to the model's messages: none for a
\* request without pagination keyword; else the text naming LAST QUERY when
\* one was found, and otherwise the text telling the model to search the
\* history itself for the last query with LIMIT. Both texts say "You MUST
\* ... add OFFSET" (must_add_offset).
PaginationContext(request, history) ==
    IF ~IsPaginationRequest(request) THEN NoContext
    ELSE IF LastQueryWithLimit(history) # <<>>
    THEN [kind |-> "paginate_last_query", must_add_offset |-> TRUE,
          last_query |-> LastQueryWithLimit(history)]
    ELSE [kind |-> "find_last_query_yourself", must_add_offset |-> TRUE]

\* ------------------------------------------- agents/orchestrator_agent.py graph
\* The history length above which invoke_orchestrator clears the session.
HistoryCeiling == 100

\* A variant that clears a history of exactly HistoryCeiling messages too.
ClearNeeded_AtCeiling(past_messages) == Len(past_messages) >= HistoryCeiling

\* len(past_messages) > 100
ClearNeeded(past_messages) == Len(past_messages) > HistoryCeiling

\* A variant in which a failure of the session store on load ends the turn
\* with the error result.
LoadOutcome_FailTurn(stored, load_failed) ==
    IF load_failed
    THEN [past_messages |-> <<>>, store |-> stored, turn_fails |-> TRUE]
    ELSE LET loaded == get_messages(stored)
         IN  IF ClearNeeded(loaded)
             THEN [past_messages |-> <<>>, store |-> <<>>, turn_fails |-> FALSE]
             ELSE [past_messages |-> loaded, store |-> stored,
                   turn_fails |-> FALSE]

\* The first try block of invoke_orchestrator: past_messages, and the value
\* left under the session key. When the session store cannot be reached
\* (get_messages logs the error and returns [], or get_chat_history raises and
\* the except branch runs) past_messages is [] and no key is touched;
\* otherwise a history over the ceiling is cleared.
LoadOutcome(stored, load_failed) ==
    IF load_failed
    THEN [past_messages |-> <<>>, store |-> stored, turn_fails |-> FALSE]
    ELSE LET loaded == get_messages(stored)
         IN  IF ClearNeeded(loaded)
             THEN [past_messages |-> <<>>, store |-> <<>>, turn_fails |-> FALSE]
             ELSE [past_messages |-> loaded, store |-> stored,
                   turn_fails |-> FALSE]

\* The dictionary invoke_orchestrator returns from its outer except branch,
\* and the graph's final state it returns otherwise (chat_history, response).
ErrorResult(error) == [kind |-> "error", error |-> error, chat_history |-> <<>>]
StateResult == [kind |-> "state"]

\* invoke_orchestrator up to the orchestrator node of the graph, for a request
\* drawn from requests, while the session has had fewer than max_turns turns,
\* the session store failing or not as load_outcomes allows: the stored
\* history is loaded, cleared when it is over the ceiling, and becomes the
\* chat_history of the initial state; the orchestrator node passes query and
\* chat_history on, and route_via_llm runs next.
InvokeOrchestrator(requests, max_turns, load_outcomes) ==
    /\ graph = "orchestrator_graph"
    /\ pc = "idle"
    /\ turn < max_turns
    /\ turn' = turn + 1
    /\ \E q \in requests : query' = q
    /\ \E load_failed \in load_outcomes :
          LET load == LoadOutcome(store, load_failed)
          IN  /\ store' = load.store
              /\ chat_history' = load.past_messages
              /\ turnStart' = [stored |-> store,
                               past_messages |-> load.past_messages,
                               load_failed |-> load_failed]
              /\ IF load.turn_fails
                 THEN /\ pc' = "idle"
                      /\ turn_result' = ErrorResult("redis")
                 ELSE /\ pc' = "orchestrator"
                      /\ turn_result' = None
    /\ response' = None
    /\ lastCall' = NoCall
    /\ pagination_context' = NoContext
    /\ decision' = None
    /\ model_errors' = {}
    /\ save_outcome' = "none"
    /\ UNCHANGED <<graph, modelCalls, toolRequests, workers>>

\* One request to a session whose store can be reached.
invoke_orchestrator == InvokeOrchestrator(Requests, 1, {FALSE})

\* The handler identifiers of the conditional edge's path map.
hProductFilter ==
    <<"p","r","o","d","u","c","t","_","f","i","l","t","e","r","_","n","o","d",
      "e">>
hStoreAnalysis ==
    <<"s","t","o","r","e","_","a","n","a","l","y","s","i","s","_","n","o","d",
      "e">>

\* The path map of add_conditional_edges: decision -> node.
path_map ==
    (hProductFilter :> "product_filter_node")
        @@ (hStoreAnalysis :> "store_analysis_node")

\* The texts the classification model may return as response.content: the
\* two identifiers, an identifier in other letter case with whitespace around
\* it, a shortened identifier, another agent's name, and no text.
hProductFilterPadded == <<" ">> \o Upper(hProductFilter) \o <<"\n">>
hProductFilterShort ==
    <<"p","r","o","d","u","c","t","_","f","i","l","t","e","r">>
RouterTexts ==
    {hProductFilter, hStoreAnalysis, hProductFilterPadded, hProductFilterShort,
     <<"P","r","o","d","u","c","t","F","i","l","t","e","r","A","g","e","n","t">>, <<>>}

\* decision = (response.content or "").strip().lower()
Decision(content) == Lower(Strip(content))

\* route_via_llm and the conditional edge after the orchestrator node: the
\* model classifies the query, the decision is looked up in the path map, and
\* the node found runs next. A decision the path map does not hold raises
\* KeyError in the graph, and a raising model call raises too: the exception
\* leaves orchestrator_graph.invoke and invoke_orchestrator returns the error
\* dictionary, without saving.
RouteViaLlm(texts) ==
    /\ graph = "orchestrator_graph"
    /\ pc = "orchestrator"
    /\ \/ \E content \in texts :
            /\ decision' = Decision(content)
            /\ IF Decision(content) \in DOMAIN path_map
               THEN /\ pc' = path_map[Decision(content)]
                    /\ UNCHANGED turn_result
               ELSE /\ pc' = "idle"
                    /\ turn_result' = ErrorResult("KeyError")
            /\ UNCHANGED model_errors
       \/ /\ model_errors' = model_errors \cup {"route_via_llm"}
          /\ pc' = "idle"
          /\ turn_result' = ErrorResult("model")
          /\ UNCHANGED decision
    /\ UNCHANGED <<graph, query, chat_history, response, lastCall, modelCalls,
                   toolRequests, store, turn, turnStart, save_outcome, workers, pagination_context>>

route_via_llm == RouteViaLlm(RouterTexts)

\* A variant of the write that appends the value to what the key holds.
RedisSet_Append(current, value) == current \o value

\* redis_client.set(self.key, messages_json): the value replaces what the key
\* held.
RedisSet(current, value) == value

\* A variant in which a save that raises ends the turn with the error result.
SaveOutcome_FailTurn(stored, messages, outcome) ==
    IF outcome = "set_failed"
    THEN [store |-> stored, turn_fails |-> TRUE]
    ELSE IF outcome = "get_failed"
    THEN [store |-> RedisSet(stored, add_messages(<<>>, messages)),
          turn_fails |-> FALSE]
    ELSE [store |-> RedisSet(stored, add_messages(stored, messages)),
          turn_fails |-> FALSE]

\* The second try block of invoke_orchestrator: the value left under the
\* session key by save_chat_history. When the write raises, add_messages
\* re-raises, invoke_orchestrator logs a warning and goes on, and the key holds
\* what it held. When only the read inside add_messages fails, get_messages
\* returns [] and the messages handed over are stored alone.
SaveOutcome(stored, messages, outcome) ==
    IF outcome = "set_failed"
    THEN [store |-> stored, turn_fails |-> FALSE]
    ELSE IF outcome = "get_failed"
    THEN [store |-> RedisSet(stored, add_messages(<<>>, messages)),
          turn_fails |-> FALSE]
    ELSE [store |-> RedisSet(stored, add_messages(stored, messages)),
          turn_fails |-> FALSE]

\* The rest of invoke_orchestrator, after the graph has ended: the whole
\* chat_history of the result is handed to save_chat_history, whose
\* add_messages stores it after the messages already stored, the session store
\* failing or not as save_outcomes allows; the graph's final state is
\* returned.
SaveChatHistory(save_outcomes) ==
    /\ graph = "orchestrator_graph"
    /\ pc = "END"
    /\ \E outcome \in save_outcomes :
          LET save == SaveOutcome(store, chat_history, outcome)
          IN  /\ store' = save.store
              /\ save_outcome' = outcome
              /\ turn_result' = IF save.turn_fails THEN ErrorResult("redis")
                                ELSE StateResult
    /\ pc' = "idle"
    /\ UNCHANGED <<graph, query, chat_history, response, lastCall, modelCalls,
                   toolRequests, turn, turnStart, pagination_context, decision,
                   model_errors, workers>>

\* The save of a session whose store can be reached.
save_chat_history == SaveChatHistory({"ok"})

\* A variant that appends the user query to the history before the response.
ProductFilterNode_AppendsQuery(responses) ==
    /\ graph = "orchestrator_graph"
    /\ pc = "product_filter_node"
    /\ IF query = <<>> \/ Strip(query) = <<>>
       THEN /\ response' = None
            /\ UNCHANGED <<chat_history, pagination_context, model_errors>>
       ELSE /\ pagination_context' = PaginationContext(query, chat_history)
            /\ \/ \E r \in responses :
                    /\ chat_history' =
                         chat_history
                             \o <<HumanMessage([kind |-> "query", query |-> query]), r>>
                    /\ response' = r
                    /\ UNCHANGED model_errors
               \/ /\ response' = None
                  /\ model_errors' = model_errors \cup {"product_filter_node"}
                  /\ UNCHANGED chat_history
    /\ pc' = "query_executor_node"
    /\ UNCHANGED <<graph, query, lastCall, modelCalls, toolRequests, store, turn,
                   turnStart, save_outcome, workers, decision, turn_result>>

\* product_filter_node: an empty or blank query returns at once; otherwise the
\* model is called and its response appended, or the call raises and the
\* history is returned unchanged with response None.
ProductFilterNode(responses) ==
    /\ graph = "orchestrator_graph"
    /\ pc = "product_filter_node"
    /\ IF query = <<>> \/ Strip(query) = <<>>
       THEN /\ response' = None
            /\ UNCHANGED <<chat_history, pagination_context, model_errors>>
       ELSE /\ pagination_context' = PaginationContext(query, chat_history)
            /\ \/ \E r \in responses :
                    /\ chat_history' = Append(chat_history, r)
                    /\ response' = r
                    /\ UNCHANGED model_errors
               \/ /\ response' = None
                  /\ model_errors' = model_errors \cup {"product_filter_node"}
                  /\ UNCHANGED chat_history
    /\ pc' = "query_executor_node"
    /\ UNCHANGED <<graph, query, lastCall, modelCalls, toolRequests, store, turn,
                   turnStart, save_outcome, workers, decision, turn_result>>

product_filter_node == ProductFilterNode(PF_Responses)

\* The first tool call of the message named execute_sql_query, 0 if none.
FirstSqlCall(tool_calls) ==
    LET idx == {i \in 1..Len(tool_calls) : tool_calls[i].name = "execute_sql_query"}
    IN  IF idx = {} THEN 0 ELSE SetMin(idx)

\* tool_args.get("query", "")
ArgQuery(args) == IF "query" \in DOMAIN args THEN args.query ELSE <<>>

\* The AIMessage query_executor_node builds from a tool result.
ToolResultMessage(result, tool_call) ==
    [type |-> "ai", content |-> ResultContent(result), tool_calls |-> <<>>,
     additional_kwargs |-> [tool_call_id |-> tool_call.id,
                            tool_name |-> tool_call.name,
                            tool_result |-> result]]

\* query_executor_node: nothing to do on an empty history or a last message
\* without tool calls; otherwise the first execute_sql_query call is executed,
\* its result appended as an AIMessage, and the node returns.
QueryExecutorNode(outcomes) ==
    /\ graph = "orchestrator_graph"
    /\ pc = "query_executor_node"
    /\ IF chat_history = <<>>
       THEN UNCHANGED <<chat_history, response, lastCall>>
       ELSE LET last_message == chat_history[Len(chat_history)]
                tool_calls == Get(last_message, "tool_calls", <<>>)
                i == FirstSqlCall(tool_calls)
            IN  IF i = 0
                THEN UNCHANGED <<chat_history, response, lastCall>>
                ELSE \E db \in outcomes :
                       LET tool_call == tool_calls[i]
                           q == ArgQuery(tool_call.args)
                           out == PF_execute_sql_query(q, db)
                           tool_message == ToolResultMessage(out.ret, tool_call)
                       IN  /\ lastCall' = [impl |-> "product_filter_agent",
                                           call_index |-> i,
                                           query |-> q, raised |-> FALSE,
                                           ret |-> out.ret,
                                           events |-> out.events,
                                           fetched |-> out.fetched]
                           /\ chat_history' = Append(chat_history, tool_message)
                           /\ response' = tool_message
    /\ pc' = "summary_node"
    /\ UNCHANGED <<graph, query, modelCalls, toolRequests, store, turn, turnStart, save_outcome, workers,
                   pagination_context, decision, model_errors, turn_result>>

query_executor_node == QueryExecutorNode(PF_DbOutcomes)

\* summary_node: the summary is appended, or the model call raises and the
\* history is returned unchanged with response None.
summary_node ==
    /\ graph = "orchestrator_graph"
    /\ pc = "summary_node"
    /\ \/ \E r \in SummaryResponses :
            /\ chat_history' = Append(chat_history, r)
            /\ response' = r
            /\ UNCHANGED model_errors
       \/ /\ response' = None
          /\ model_errors' = model_errors \cup {"summary_node"}
          /\ UNCHANGED chat_history
    /\ pc' = "END"
    /\ UNCHANGED <<graph, query, lastCall, modelCalls, toolRequests, store, turn,
                   turnStart, save_outcome, workers, pagination_context, decision, turn_result>>

\* store_analysis_node, the other handler of the path map: the model answers
\* the query and the answer is the turn's response; a raising model call
\* leaves the graph as an exception.
AnalysisResponses == {AIResponse("Sales are up this month.", <<>>)}

store_analysis_node ==
    /\ graph = "orchestrator_graph"
    /\ pc = "store_analysis_node"
    /\ \/ \E r \in AnalysisResponses :
            /\ chat_history' = Append(chat_history, r)
            /\ response' = r
            /\ pc' = "END"
            /\ UNCHANGED <<model_errors, turn_result>>
       \/ /\ model_errors' = model_errors \cup {"store_analysis_node"}
          /\ pc' = "idle"
          /\ turn_result' = ErrorResult("model")
          /\ UNCHANGED <<chat_history, response>>
    /\ UNCHANGED <<graph, query, lastCall, modelCalls, toolRequests, store, turn,
                   turnStart, save_outcome, workers, pagination_context, decision>>

\* ---------------------------------------------------- helpers/api_helper.py
\* extract_result_content over the graph's result: the newest "ai" message with
\* the result marker whose JSON parses gives (result_data, sql_query); without
\* one, the fallback.
extract_result_content(history) ==
    LET idx == {i \in 1..Len(history) :
                  /\ history[i].type = "ai"
                  /\ HasResultMarker(history[i].content)
                  /\ JsonLoadsOk(history[i].content)}
    IN  IF idx = {}
        THEN [result_data |-> [message |-> <<"User query processed successfully">>],
              sql_query |-> <<"Query executed">>]
        ELSE LET parsed_result == JsonLoads(history[SetMax(idx)].content)
             IN  [result_data |->
                    [count |-> Get(parsed_result, "count", 0),
                     results |-> Get(parsed_result, "results", <<>>),
                     message |-> Get(parsed_result, "message", <<>>),
                     total_available |-> Get(parsed_result, "total_available",
                                             Get(parsed_result, "count", 0)),
                     showing |-> Get(parsed_result, "showing",
                                     Get(parsed_result, "count", 0)),
                     has_more |-> Get(parsed_result, "has_more", FALSE)],
                  sql_query |-> Get(parsed_result, "query", <<"Query executed">>)]

\* ------------------------------------------------ sql_assistant_agent.py graph
\* What llm_with_tools.invoke may return in call_model: the SQL assistant's
\* tool does no windowing, so its texts carry no LIMIT part and no count cue;
\* one WHERE part holds the words Field and Type in a literal.
SA_Queries ==
    {h \o m : h \in QueryHeads,
               m \in {<<>>,
                qWhereNote,
                qWhereUpdated,
                <<" ","W","H","E","R","E"," ","n","o","t","e"," ","="," ","'","F","i","e","l","d"," ","T","y","p","e","'">>}}

SA_Responses == ModelResponses(SA_Queries)


\* The ToolMessage execute_tool builds: content is str(result), or the error
\* text when tool.invoke raised.
ToolMessage(ret, tool_call_id) ==
    [type |-> "tool", content |-> [kind |-> "tool_str", result |-> ret],
     tool_calls |-> <<>>, tool_call_id |-> tool_call_id]

\* w in str(msg.content) for a ToolMessage: the str() of a result dictionary
\* shows the query text and the rows (whose keys are Field, Type, ... for a
\* schema result); the fixed error texts hold neither word.
ToolContentHas(content, w) ==
    /\ content.result.kind = "dict"
    /\ \/ content.result.schema
       \/ Contains(content.result.data.query, w)

\* should_continue: the next node, "crashed" when messages[-1] raises IndexError.
should_continue(messages) ==
    IF messages = <<>> THEN "crashed"
    ELSE LET last_message == messages[Len(messages)]
         IN  IF last_message.tool_calls # <<>> THEN "execute_tool"
             ELSE IF last_message.type = "tool"
             THEN IF ToolContentHas(last_message.content, <<"F","i","e","l","d">>)
                     /\ ToolContentHas(last_message.content, <<"T","y","p","e">>)
                  THEN "call_model"
                  ELSE "END"
             ELSE "END"

\* chat_endpoint's except branch, which an exception leaving
\* invoke_sql_assistant reaches: HTTPException(status_code=500,
\* detail=f"Internal server error: {str(e)}").
HTTPException(e) ==
    [kind |-> "http_error", status_code |-> 500,
     detail |-> <<"Internal server error: ", e>>]

invoke_sql_assistant ==
    /\ graph = "sql_assistant_graph"
    /\ pc = "idle"
    /\ \E q \in Requests : query' = q
    /\ chat_history' = <<>>
    /\ response' = None
    /\ modelCalls' = 0
    /\ toolRequests' = 0
    /\ pc' = "call_model"
    /\ model_errors' = {}
    /\ UNCHANGED <<graph, lastCall, store, turn, turnStart, save_outcome, workers, pagination_context,
                   decision, turn_result>>

\* call_model: the model's response REPLACES chat_history (State declares no
\* reducer); a raising model call ends the graph run with the exception, which
\* chat_endpoint turns into its error response.
call_model ==
    /\ graph = "sql_assistant_graph"
    /\ pc = "call_model"
    /\ modelCalls < MaxModelCalls
    /\ modelCalls' = modelCalls + 1
    /\ lastCall' = NoCall
    /\ \/ \E r \in SA_Responses :
            /\ chat_history' = <<r>>
            /\ response' = r
            /\ toolRequests' = IF r.tool_calls # <<>> THEN toolRequests + 1
                               ELSE toolRequests
            /\ pc' = should_continue(<<r>>)
            /\ UNCHANGED model_errors
            /\ UNCHANGED turn_result
       \/ /\ pc' = "crashed"
          /\ model_errors' = model_errors \cup {"call_model"}
          /\ turn_result' = HTTPException("model")
          /\ UNCHANGED <<chat_history, response, toolRequests>>
    /\ UNCHANGED <<graph, query, store, turn, turnStart, save_outcome, workers,
                   pagination_context, decision>>

\* execute_tool: the first tool call only; a tool of that name is invoked and
\* its result, or the text of the exception it raised, becomes the one message
\* of chat_history; for an unknown tool name chat_history becomes empty.
execute_tool ==
    /\ graph = "sql_assistant_graph"
    /\ pc = "execute_tool"
    /\ LET last_message == chat_history[Len(chat_history)]
           tool_call == last_message.tool_calls[1]
       IN  IF tool_call.name # "execute_sql_query"
           THEN /\ chat_history' = <<>>
                /\ UNCHANGED lastCall
           ELSE IF "query" \notin DOMAIN tool_call.args
           THEN /\ chat_history' =
                     <<ToolMessage([kind |-> "tool_error",
                                    text |-> <<"Error executing ", tool_call.name,
                                               ": ", "ValidationError">>],
                                   tool_call.id)>>
                /\ UNCHANGED lastCall
           ELSE \E db \in SA_DbOutcomes :
                  LET q == tool_call.args.query
                      out == SA_execute_sql_query(q, db)
                      ret == IF out.raised
                             THEN [kind |-> "tool_error",
                                   text |-> <<"Error executing ", tool_call.name,
                                              ": ">> \o out.ret.text]
                             ELSE out.ret
                  IN  /\ lastCall' = [impl |-> "sql_assistant_agent",
                                      call_index |-> 1,
                                      query |-> q, raised |-> out.raised,
                                      ret |-> out.ret,
                                      events |-> out.events,
                                      fetched |-> out.fetched]
                      /\ chat_history' = <<ToolMessage(ret, tool_call.id)>>
    /\ pc' = should_continue(chat_history')
    /\ turn_result' = IF should_continue(chat_history') = "crashed"
                      THEN HTTPException("IndexError")
                      ELSE turn_result
    /\ UNCHANGED <<graph, query, response, modelCalls, toolRequests, store, turn,
                   turnStart, save_outcome, workers, pagination_context, decision,
                   model_errors>>

\* ------------------------------------------------------------ specification
Next ==
    \/ invoke_orchestrator
    \/ route_via_llm
    \/ store_analysis_node
    \/ product_filter_node
    \/ query_executor_node
    \/ summary_node
    \/ save_chat_history
    \/ invoke_sql_assistant
    \/ call_model
    \/ execute_tool

Spec == Init /\ [][Next]_vars

\* ------------------------------------------------- a session of several turns
\* The SQL texts of the model's tool calls in a session: a first page, its
\* next page, a query with the limit clause in lower case, a query with a
\* double-quoted literal, one with a backslash, an unbounded query, and a
\* query that validation rejects.
SessionQueries ==
    {qSelectAll \o qLimit5,
     qSelectAll \o qLimit5 \o <<" ","O","F","F","S","E","T"," ","5">>,
     qSelectLower \o qLimitLower,
     qSelectAll \o <<" ","W","H","E","R","E"," ","m","e","t","a","l"," ","="," ","\"","G","o","l","d","\"">> \o qLimit5,
     qSelectAll \o <<" ","W","H","E","R","E"," ","s","k","u"," ","L","I","K","E"," ","'","A","\\","_","%","'">> \o qLimit5,
     qSelectAll,
     qDelete \o qLimit5}

\* The request texts of a session's turns: a continuation request, a new
\* search and an empty text.
rShowMore == <<"s","h","o","w"," ","m","o","r","e">>
SessionRequests == {rShowMore, rGold, <<>>}

\* What the model may return in a session's product_filter_node.
SessionResponses ==
    {AIResponse("Here are some rings.", <<>>)}
    \cup {AIResponse("", <<ToolCall("execute_sql_query", QueryArgs(q), "call_1")>>) :
            q \in SessionQueries}

\* The data store during a session: rows, no rows, or no connection.
SessionDbOutcomes ==
    {[fault |-> "none", rows |-> Rows(2), serializable |-> TRUE],
     [fault |-> "none", rows |-> <<>>, serializable |-> TRUE],
     [fault |-> "no_conn", rows |-> <<>>, serializable |-> TRUE]}

\* A stored history of n summary messages, as left by turns in which only
\* summary_node appended a message.
StoredSummaries(n) ==
    [i \in 1..n |-> _serialize_message(AIResponse("Found some products.", <<>>))]

\* A stored history that holds, between two summary messages, entries this
\* code did not write: a JSON string in place of a message dictionary, a
\* dictionary whose content is null, a dictionary whose type is not one of
\* human, ai, system, and a dictionary without type.
StoredForeign ==
    <<_serialize_message(AIResponse("Found some products.", <<>>)),
      JsonString,
      [type |-> "tool", content |-> TextContent("3 rows found.")],
      [type |-> "ai", content |-> JsonNull],
      [content |-> TextContent("show me silver rings")],
      _serialize_message(AIResponse("Here are some rings.", <<>>))>>

\* A stored history whose last entry is an assistant message stored with a
\* tool call, a summary before it.
StoredToolCallLast ==
    <<_serialize_message(AIResponse("Found some products.", <<>>)),
      _serialize_message(
          AIResponse("", <<ToolCall("execute_sql_query",
                                    QueryArgs(qSelectAll \o qLimit5),
                                    "call_1")>>))>>

\* A session starts empty; or it is met before its last turn, with a stored
\* history of exactly HistoryCeiling messages or one more, with the stored
\* history that holds foreign entries, or with the stored history that ends
\* in a tool call.
SessionInit ==
    /\ graph = "orchestrator_graph"
    /\ pc = "idle"
    /\ query = <<>>
    /\ chat_history = <<>>
    /\ response = None
    /\ lastCall = NoCall
    /\ modelCalls = 0
    /\ toolRequests = 0
    /\ \/ store = <<>> /\ turn = 0
       \/ /\ store \in {StoredSummaries(HistoryCeiling),
                         StoredSummaries(HistoryCeiling + 1),
                         StoredForeign, StoredToolCallLast}
          /\ turn = MaxTurns - 1
    /\ turnStart = NoTurn
    /\ pagination_context = NoContext
    /\ decision = None
    /\ model_errors = {}
    /\ turn_result = None
    /\ save_outcome = "none"
    /\ workers = <<>>

\* In a session the store may fail on load, and the classification model
\* returns the product-filter identifier, in either form, or a text that is
\* no identifier.
session_invoke_orchestrator ==
    InvokeOrchestrator(SessionRequests, MaxTurns, BOOLEAN)
session_route_via_llm ==
    RouteViaLlm({hProductFilter, hProductFilterPadded, hProductFilterShort})
session_product_filter_node == ProductFilterNode(SessionResponses)
session_query_executor_node == QueryExecutorNode(SessionDbOutcomes)
session_save_chat_history ==
    SaveChatHistory({"ok", "get_failed", "set_failed"})

SessionNext ==
    \/ session_invoke_orchestrator
    \/ session_route_via_llm
    \/ session_product_filter_node
    \/ session_query_executor_node
    \/ summary_node
    \/ session_save_chat_history

SessionSpec == SessionInit /\ [][SessionNext]_vars

\* ---------------------------------------- two concurrent turns of one session
\* Two calls of invoke_orchestrator for the same session run at the same
\* time (two requests of one user). Each takes its steps at the operations on
\* the session key: the load, the graph run, the read inside add_messages and
\* the write inside add_messages; no lock is held between them.
ConcurrentTurns == {1, 2}

\* What the graph appends in the turn of worker w: the summary alone, or a
\* text response and the summary; each turn has its own texts.
TurnOutputs(w) ==
    LET text == IF w = 1 THEN "Here are the gold items." ELSE "Here are some rings."
        reply == IF w = 1 THEN "Sales are up this month." ELSE "3 rows found."
    IN  {<<AIResponse(text, <<>>)>>,
         <<AIResponse(reply, <<>>), AIResponse(text, <<>>)>>}

ConcurrentInit ==
    /\ graph = "orchestrator_graph"
    /\ pc = "idle"
    /\ query = <<>>
    /\ chat_history = <<>>
    /\ response = None
    /\ lastCall = NoCall
    /\ modelCalls = 0
    /\ toolRequests = 0
    /\ store \in {<<>>, StoredSummaries(1)}
    /\ turn = 0
    /\ turnStart = NoTurn
    /\ pagination_context = NoContext
    /\ decision = None
    /\ model_errors = {}
    /\ turn_result = None
    /\ save_outcome = "none"
    /\ workers = [w \in ConcurrentTurns |->
                    [pc |-> "idle", past_messages |-> <<>>,
                     produced |-> <<>>, chat_history |-> <<>>,
                     existing_messages |-> <<>>, wrote |-> <<>>]]

\* The first try block of invoke_orchestrator in the turn of worker w.
TurnLoad(w) ==
    /\ workers[w].pc = "idle"
    /\ LET load == LoadOutcome(store, FALSE)
       IN  /\ store' = load.store
           /\ workers' = [workers EXCEPT ![w].pc = "graph",
                                         ![w].past_messages = load.past_messages]
    /\ UNCHANGED <<graph, pc, query, chat_history, response, lastCall,
                   modelCalls, toolRequests, turn, turnStart,
                   pagination_context, decision, model_errors, turn_result,
                   save_outcome>>

\* orchestrator_graph.invoke in the turn of worker w: the result's
\* chat_history is past_messages followed by what the nodes appended.
TurnGraph(w) ==
    /\ workers[w].pc = "graph"
    /\ \E out \in TurnOutputs(w) :
          workers' = [workers EXCEPT
                         ![w].pc = "save",
                         ![w].produced = out,
                         ![w].chat_history = workers[w].past_messages \o out]
    /\ UNCHANGED <<graph, pc, query, chat_history, response, lastCall,
                   modelCalls, toolRequests, store, turn, turnStart,
                   pagination_context, decision, model_errors, turn_result,
                   save_outcome>>

\* add_messages in the turn of worker w, up to its read:
\* existing_messages = self.get_messages().
AddMessagesGet(w) ==
    /\ workers[w].pc = "save"
    /\ workers' = [workers EXCEPT
                      ![w].pc = "set",
                      ![w].existing_messages = get_messages(store)]
    /\ UNCHANGED <<graph, pc, query, chat_history, response, lastCall,
                   modelCalls, toolRequests, store, turn, turnStart,
                   pagination_context, decision, model_errors, turn_result,
                   save_outcome>>

\* The rest of add_messages in the turn of worker w: messages_json is built
\* from the messages read before and written with redis_client.set; the turn
\* returns.
AddMessagesSet(w) ==
    /\ workers[w].pc = "set"
    /\ LET value == messages_json(workers[w].existing_messages,
                                  workers[w].chat_history)
       IN  /\ store' = RedisSet(store, value)
           /\ workers' = [workers EXCEPT ![w].pc = "done", ![w].wrote = value]
    /\ UNCHANGED <<graph, pc, query, chat_history, response, lastCall,
                   modelCalls, toolRequests, turn, turnStart,
                   pagination_context, decision, model_errors, turn_result,
                   save_outcome>>

ConcurrentNext ==
    \/ \E w \in ConcurrentTurns : TurnLoad(w)
    \/ \E w \in ConcurrentTurns : TurnGraph(w)
    \/ \E w \in ConcurrentTurns : AddMessagesGet(w)
    \/ \E w \in ConcurrentTurns : AddMessagesSet(w)

ConcurrentSpec == ConcurrentInit /\ [][ConcurrentNext]_vars

\* -------------------------------------------------------------------- claims
\* The latest tool call was made by one of the two execute_sql_query.
Called == lastCall.impl # "none"
CalledPF == lastCall.impl = "product_filter_agent"
CalledSA == lastCall.impl = "sql_assistant_agent"

\* The status message of the latest call's result, for either implementation.
CallMessage ==
    IF CalledPF THEN lastCall.ret.data.message
    ELSE IF lastCall.ret.kind = "dict"
    THEN Get(lastCall.ret.data, "message", <<>>)
    ELSE lastCall.ret.text

\* The latest call was rejected by validation.
CallRejected == Called /\ CallMessage \in {<<MsgOnlySelect>>, <<MsgForbidden>>}

\* Number of cursor.execute calls of the latest tool call.
ExecuteCount ==
    Cardinality({i \in 1..Len(lastCall.events) : lastCall.events[i] = "execute"})

\* The trimmed, upper-cased query of the latest call starts with an allowed word.
CallHasAllowedPrefix ==
    \E w \in {kwSELECT, kwDESCRIBE, kwSHOW} :
        StartsWith(Upper(Strip(lastCall.query)), w)

\* The query of the latest call contains a forbidden word in some letter case.
CallHasForbiddenWord ==
    \E w \in {<<"I","N","S","E","R","T">>,
     <<"U","P","D","A","T","E">>,
     <<"D","E","L","E","T","E">>,
     <<"D","R","O","P">>,
     <<"C","R","E","A","T","E">>,
     <<"A","L","T","E","R">>,
     <<"T","R","U","N","C","A","T","E">>} :
        Contains(Upper(lastCall.query), w)

\* C1: a query whose trimmed, upper-cased text does not start with SELECT,
\* DESCRIBE or SHOW is rejected and never sent to the data store (no
\* connection, no cursor.execute), in both implementations.
C1_PrefixRejected ==
    (Called /\ ~CallHasAllowedPrefix)
        => (CallRejected /\ ~lastCall.raised /\ lastCall.events = <<>>)

\* C1 witness: the product-filter tool was called with
\* "WITH t AS (SELECT 1) SELECT * FROM t" and rejected it.
C1_Witness ==
    /\ CalledPF
    /\ lastCall.query = qWith
    /\ CallMessage = <<MsgOnlySelect>>
    /\ lastCall.events = <<>>

\* C2: a query that contains INSERT, UPDATE, DELETE, DROP, CREATE, ALTER or
\* TRUNCATE as a substring in any letter case is rejected, even when it
\* starts with SELECT, DESCRIBE or SHOW, and is never sent to the data store.
C2_ForbiddenRejected ==
    (Called /\ CallHasForbiddenWord)
        => (CallRejected /\ ~lastCall.raised /\ lastCall.events = <<>>)

\* C2 witness: the SQL assistant's tool was called with a SELECT whose column
\* name updated_at contains UPDATE, and rejected it.
C2_Witness ==
    /\ CalledSA
    /\ lastCall.query = qSelectAll \o qWhereUpdated
    /\ CallHasAllowedPrefix
    /\ CallMessage = <<MsgForbidden>>
    /\ lastCall.events = <<>>

\* C3: every query that reaches the data store (cursor.execute called) passed
\* both validation checks in that invocation, and an invocation calls
\* cursor.execute at most once, also when the execution fails.
C3_ValidatedOnce ==
    Called =>
        /\ ExecuteCount <= 1
        /\ ExecuteCount >= 1 => (CallHasAllowedPrefix /\ ~CallHasForbiddenWord)

\* C3 witness: a valid query reached the data store, cursor.execute raised,
\* and the invocation returned an error result after that one execution.
C3_Witness ==
    /\ CalledPF
    /\ ExecuteCount = 1
    /\ lastCall.ret.data.message = <<"Error executing query: ", "execute_error">>

\* C4 (as claimed): a rejected query does not raise and returns a structured
\* zero-row result (count 0, empty rows, the query text, a status message) in
\* the same form as any other QueryResult: JSON from the product-filter tool,
\* a result dictionary from the SQL assistant's tool.
C4_RejectionStructured ==
    CallRejected =>
        /\ ~lastCall.raised
        /\ CalledPF =>
              /\ lastCall.ret.fmt = "json"
              /\ lastCall.ret.data.count = 0
              /\ lastCall.ret.data.results = <<>>
              /\ lastCall.ret.data.query = lastCall.query
        /\ CalledSA =>
              /\ lastCall.ret.kind = "dict"
              /\ lastCall.ret.data.count = 0
              /\ lastCall.ret.data.results = <<>>
              /\ lastCall.ret.data.query = lastCall.query

\* C5 (as claimed): when the query generated in a turn fails the safety check,
\* extract_result_content over the post-turn history returns the rejection's
\* zero-result: count 0, empty results, the rejection message, and the
\* rejected query text.
C5_RejectionSurfaced ==
    (graph = "orchestrator_graph" /\ pc = "END" /\ CallRejected) =>
        LET got == extract_result_content(chat_history)
        IN  /\ got.sql_query = lastCall.query
            /\ got.result_data.message = CallMessage
            /\ Get(got.result_data, "count", -1) = 0
            /\ Get(got.result_data, "results", <<0>>) = <<>>

\* The latest call went through the windowing logic (rows fetched, response
\* built with total_available, showing, has_more).
Windowed == CalledPF /\ "showing" \in DOMAIN lastCall.ret.data

\* C6: every windowed QueryResult has showing <= total_available,
\* has_more = (total_available > showing), and as many rows as showing.
C6_WindowInvariant ==
    Windowed =>
        LET d == lastCall.ret.data
        IN  /\ d.showing <= d.total_available
            /\ d.has_more = (d.total_available > d.showing)
            /\ Len(d.results) = d.showing
            /\ d.total_available = Len(lastCall.fetched)

\* C6 witness: a windowed result that shows exactly every fetched row of a
\* query with LIMIT 5 (5 of 5), so has_more is false at the boundary.
C6_Witness ==
    /\ Windowed
    /\ lastCall.query = qSelectAll \o qLimit5
    /\ lastCall.ret.data.total_available = 5
    /\ lastCall.ret.data.showing = 5
    /\ ~lastCall.ret.data.has_more

\* C7 (as claimed): with no LIMIT in the query text and a count cue "top N" in
\* the turn's request text, the shown count is min(N, total).
C7_CueFromRequest ==
    (Windowed /\ ~Contains(Upper(lastCall.query), kwLIMIT)
        /\ CueCount(Lower(query)) >= 0) =>
        lastCall.ret.data.showing =
            Min(CueCount(Lower(query)), lastCall.ret.data.total_available)

\* The explicit limit clauses of the latest query: LIMIT in any letter case,
\* whitespace, a number.
LimitClauses == WordNumMatches(Upper(lastCall.query), kwLIMIT)

\* C8 (as claimed): when the query text holds, in any letter case, a limit
\* clause with a numeric value N, the shown count is min(N, total).
C8_ExplicitLimit ==
    (Windowed /\ LimitClauses # {}) =>
        lastCall.ret.data.showing =
            Min(WordNumValue(Upper(lastCall.query), kwLIMIT),
                lastCall.ret.data.total_available)

\* The latest product-filter call returned the result of a successful
\* execution (rows or no rows), not a rejection or an error.
CallSucceeded ==
    /\ CalledPF
    /\ lastCall.ret.data.message[1] \in
          {"Query executed successfully. Found ",
           "Query executed successfully. No results found."}

\* C9: with no LIMIT in the query and no count cue (in the query text the tool
\* scans, or in the request text), the shown count is min(10, total) and
\* has_more = (total > 10); the fields are read as extract_result_content
\* reads them (showing defaults to count, has_more to false).
C9_DefaultWindow ==
    (CallSucceeded /\ ~Contains(Upper(lastCall.query), kwLIMIT)
        /\ CueCount(Lower(lastCall.query)) < 0 /\ CueCount(Lower(query)) < 0) =>
        LET d == lastCall.ret.data
            total == Len(lastCall.fetched)
        IN  /\ Get(d, "showing", d.count) = Min(10, total)
            /\ Get(d, "has_more", FALSE) = (total > 10)
            /\ Len(d.results) = Min(10, total)

\* C9 witness: "SELECT * FROM product" for the request "show me gold rings",
\* 3 fetched rows: shown 3, has_more false.
C9_Witness ==
    /\ CallSucceeded
    /\ query = rGold
    /\ lastCall.query = qSelectAll
    /\ Len(lastCall.fetched) = 3
    /\ lastCall.ret.data.showing = 3
    /\ ~lastCall.ret.data.has_more

\* C10: the rows surfaced are exactly the first min(requested, total) rows of
\* the fetched row set, in the data store's order.
C10_FirstRows ==
    Windowed =>
        LET total == Len(lastCall.fetched)
            requested == PF_ResultLimit(lastCall.query, total)
        IN  lastCall.ret.data.results =
                SubSeq(lastCall.fetched, 1, Min(requested, total))

\* C10 witness: 12 rows fetched for a query with LIMIT 5; the 5 rows surfaced
\* are the first 5 fetched, in order.
C10_Witness ==
    /\ Windowed
    /\ lastCall.fetched = Rows(12)
    /\ lastCall.ret.data.results = <<12, 11, 10, 9, 8>>

\* ------------------------------------------------- claims about a session
kwOFFSET == <<"O","F","F","S","E","T">>

\* str(n) of a natural number.
RECURSIVE ToDigits(_)
ToDigits(n) ==
    IF n < 10 THEN <<DigitChars[n + 1]>>
    ELSE ToDigits(n \div 10) \o <<DigitChars[(n % 10) + 1]>>

\* The next page of a bounded query "... LIMIT L" or "... LIMIT L OFFSET O":
\* the same text with " OFFSET L" added, or with the offset replaced by O + L.
NextPageQuery(prior) ==
    LET L == WordNumValue(prior, kwLIMIT)
    IN  IF WordNumMatches(prior, kwOFFSET) = {}
        THEN prior \o <<" ">> \o kwOFFSET \o <<" ">> \o ToDigits(L)
        ELSE LET i == SetMin(WordNumMatches(prior, kwOFFSET))
                 b == SpaceRunEnd(prior, i + Len(kwOFFSET))
                 e == DigitRunEnd(prior, b)
             IN  SubSeq(prior, 1, b - 1)
                 \o ToDigits(WordNumValue(prior, kwOFFSET) + L)
                 \o SubSeq(prior, e, Len(prior))

\* The turn's request is a continuation request and the model was invoked.
ContinuationTurn ==
    /\ graph = "orchestrator_graph"
    /\ pc \in {"query_executor_node", "summary_node", "END"}
    /\ IsPaginationRequest(query)

\* C11 (as claimed): on a continuation request with a prior bounded query
\* "... LIMIT L [OFFSET O]" in history, the query executed in the turn is that
\* text with the offset added or advanced by L, whatever the model answers.
C11_PaginationArithmetic ==
    (ContinuationTurn /\ CalledPF
        /\ LastQueryWithLimit(turnStart.past_messages) # <<>>
        /\ WordNumMatches(LastQueryWithLimit(turnStart.past_messages), kwLIMIT) # {})
    => lastCall.query = NextPageQuery(LastQueryWithLimit(turnStart.past_messages))

\* The query of a history message that is a structured query-result record
\* (result marker, JSON that parses), <<>> if it is not one.
RecordQuery(msg) ==
    IF /\ ContentTruthy(msg.content)
       /\ HasResultMarker(msg.content)
       /\ JsonLoadsOk(msg.content)
    THEN Get(JsonLoads(msg.content), "query", <<>>)
    ELSE <<>>

\* The query of the most recent query-result record of a history whose query
\* contains a limit clause, in any letter case; <<>> if there is none.
MostRecentBoundedQuery(history) ==
    LET idx == {i \in 1..Len(history) :
                  Contains(Upper(RecordQuery(history[i])), kwLIMIT)}
    IN  IF idx = {} THEN <<>> ELSE RecordQuery(history[SetMax(idx)])

\* C12 (as claimed): on a continuation request the prior query handed to the
\* model is the query of the most recent query-result record of the history
\* that contains a limit clause.
C12_MostRecentBounded ==
    (ContinuationTurn /\ MostRecentBoundedQuery(turnStart.past_messages) # <<>>)
    => /\ pagination_context.kind = "paginate_last_query"
       /\ pagination_context.last_query =
             MostRecentBoundedQuery(turnStart.past_messages)

\* C13 (as claimed): on a continuation request with no prior bounded query in
\* history, the model is not told to add an OFFSET to a query, and no query
\* with an OFFSET is executed in that turn.
C13_NoContinuationContext ==
    (ContinuationTurn /\ LastQueryWithLimit(turnStart.past_messages) = <<>>)
    => /\ ~pagination_context.must_add_offset
       /\ CalledPF => ~Contains(Upper(lastCall.query), kwOFFSET)

\* C14 (as claimed): for the messages of a turn's result, deserializing the
\* serialized message keeps the role, the sequence keeps its length, and for
\* every message stored with a query text the deserialized content is a
\* query-result record from which the pagination scan reads that same text.
C14_RoundTrip ==
    (graph = "orchestrator_graph" /\ pc = "END") =>
        /\ Len(get_messages(add_messages(<<>>, chat_history))) = Len(chat_history)
        /\ \A i \in 1..Len(chat_history) :
             LET m == chat_history[i]
                 d == _serialize_message(m)
                 back == _deserialize_message(d)
             IN  /\ back.type = m.type
                 /\ "sql_query" \in DOMAIN d => RecordQuery(back) = d.sql_query

\* The role, content and query text of a stored entry.
EntryView(d) ==
    [type |-> Get(d, "type", None), content |-> Get(d, "content", None),
     sql_query |-> Get(d, "sql_query", <<>>)]

\* C15 (as claimed): absent a ceiling reset, the entries stored before a turn
\* are, with unchanged role, content and query text, a prefix of the entries
\* stored after it (stated for the turns whose load succeeded and found every
\* stored entry readable).
C15_AppendOnly ==
    (graph = "orchestrator_graph" /\ pc = "idle" /\ turnStart # NoTurn
        /\ ~turnStart.load_failed
        /\ Len(get_messages(turnStart.stored)) = Len(turnStart.stored)
        /\ Len(turnStart.stored) <= HistoryCeiling)
    => /\ Len(store) >= Len(turnStart.stored)
       /\ \A i \in 1..Len(turnStart.stored) :
             EntryView(store[i]) = EntryView(turnStart.stored[i])

LoopCrashed ==
    /\ graph = "sql_assistant_graph"
    /\ pc = "crashed"
    /\ toolRequests > 0
    /\ chat_history = <<>>

\* C17 (as claimed): the call_model/execute_tool loop reaches its end state,
\* and when it has, the number of model calls is the number of
\* tool-invocation responses plus one.
C17_LoopTermination ==
    graph = "sql_assistant_graph" =>
        /\ ~LoopCrashed
        /\ pc = "END" => modelCalls = toolRequests + 1

\* C18 (as claimed): for any tool-invocation request of the model (any tool
\* name, any arguments, any exception of the tool) the run goes on with a
\* tool-result message in chat_history; it never ends with an uncaught
\* exception.
C18_ToolFailureHandled ==
    (graph = "sql_assistant_graph" /\ toolRequests > 0
        /\ pc \in {"call_model", "END", "crashed"})
    => (chat_history # <<>> /\ ~LoopCrashed)

\* The tool message holds a schema response: the rows of DESCRIBE or SHOW
\* COLUMNS (columns Field, Type, ...).
IsSchemaResult(msg) ==
    msg.content.result.kind = "dict" /\ msg.content.result.schema

\* C19 (as claimed): after a tool executed, the loop goes back to the model
\* only for a schema response; for data rows, zero rows, a rejection or an
\* error text it ends without a further model call.
C19_LoopBackOnlyOnSchema ==
    (graph = "sql_assistant_graph" /\ chat_history # <<>>
        /\ chat_history[Len(chat_history)].type = "tool")
    => LET last_message == chat_history[Len(chat_history)]
       IN  /\ pc = "END" => ~IsSchemaResult(last_message)
           /\ pc \in {"call_model", "crashed"} => IsSchemaResult(last_message)

\* C20 (as claimed): the tool call executed for a model response is the first
\* tool call of the response.
C20_FirstToolCallOnly ==
    Called => lastCall.call_index = 1

\* ------------------------------------------- claims about failures and storage
\* The call identifiers of the tool-invocation requests of a message.
RequestIds(msg) ==
    LET tool_calls == Get(msg, "tool_calls", <<>>)
    IN  {tool_calls[j].id : j \in 1..Len(tool_calls)}

\* The message is a tool-result message: a ToolMessage of the SQL assistant
\* graph, or an AIMessage whose content holds the result marker.
IsToolResultMessage(msg) == msg.type = "tool" \/ HasResultMarker(msg.content)

\* The call identifier a tool-result message carries (None when it has none).
ToolResultId(msg) ==
    IF msg.type = "tool" THEN msg.tool_call_id
    ELSE IF "additional_kwargs" \in DOMAIN msg
    THEN msg.additional_kwargs.tool_call_id
    ELSE None

\* C21 (as claimed): in every history, each tool-result message carries a call
\* identifier that is the identifier of a tool-invocation request of an
\* earlier message of the same history.
C21_ToolResultRefersToRequest ==
    \A i \in 1..Len(chat_history) :
        IsToolResultMessage(chat_history[i]) =>
            \E j \in 1..(i - 1) :
                ToolResultId(chat_history[i]) \in RequestIds(chat_history[j])

\* The router has returned its decision in this turn.
Routed == graph = "orchestrator_graph" /\ decision # None

\* C22 (as claimed): for every text the classification model returns, the turn
\* goes to one of the handlers of the path map; when the trimmed, lower-cased
\* text is not a known identifier a default handler is used, and the turn does
\* not end with the router's lookup error.
C22_RouterDefault ==
    Routed =>
        /\ turn_result # ErrorResult("KeyError")
        /\ pc \in {"product_filter_node", "query_executor_node", "summary_node",
                    "store_analysis_node", "END"}
           \/ turn_result \in {StateResult, ErrorResult("model")}

\* The latest tool call obtained a connection; it closed it.
ConnectionAcquired ==
    Called /\ \E i \in 1..Len(lastCall.events) : lastCall.events[i] = "connect_ok"
ConnectionReleased ==
    \E i \in 1..Len(lastCall.events) : lastCall.events[i] = "conn.close"

\* C23 (as claimed): every connection execute_sql_query obtained is closed
\* before the call returns or raises, on the success path and on every error
\* path (cursor.execute raises, cursor.fetchall raises, any exception type),
\* in both implementations.
C23_ConnectionReleased == ConnectionAcquired => ConnectionReleased

\* The session store failed when the turn's history was loaded.
LoadFailed ==
    graph = "orchestrator_graph" /\ turnStart # NoTurn /\ turnStart.load_failed

\* C24: when the session store fails on load, the graph is given an empty
\* history, the stored value is left alone while the graph runs, the turn does
\* not end with an error of the store, and once a handler was chosen the turn
\* ends with the graph's final state.
C24_LoadFailureTolerated ==
    LoadFailed =>
        /\ turnStart.past_messages = <<>>
        /\ turn_result # ErrorResult("redis")
        /\ turn_result = None => (pc # "idle" /\ store = turnStart.stored)
        /\ (pc = "idle" /\ decision # None /\ decision \in DOMAIN path_map)
              => turn_result = StateResult

\* C24 witness: a turn whose load failed while messages were stored has ended
\* with the graph's final state, which holds a response.
C24_Witness ==
    /\ LoadFailed
    /\ turnStart.stored # <<>>
    /\ turn_result = StateResult
    /\ response # None
    /\ chat_history # <<>>

\* The turn has ended: invoke_orchestrator has returned.
TurnEnded == graph = "orchestrator_graph" /\ pc = "idle" /\ turn_result # None

\* C25 (as claimed): when a model call of the turn raised (in routing, query
\* generation or summarization), the turn ends with the error result, not with
\* the graph's final state.
C25_ModelFailurePropagates ==
    (TurnEnded /\ model_errors # {}) => turn_result.kind = "error"

\* The latest tool call reached the data store and the data store failed it:
\* no connection, or a call that raised before the cursor was closed.
ExecutionFailed ==
    /\ Called
    /\ lastCall.events # <<>>
    /\ \A i \in 1..Len(lastCall.events) : lastCall.events[i] # "cursor.close"

\* The result dictionary of the latest call, None when the call returned a
\* bare string or raised.
CallResultData ==
    IF CalledPF THEN (IF lastCall.ret.fmt = "json" THEN lastCall.ret.data ELSE None)
    ELSE IF lastCall.ret.kind = "dict" THEN lastCall.ret.data
    ELSE None

\* C26 (as claimed): when the data-store call raises or no connection is
\* obtained, execute_sql_query does not raise and returns a structured
\* zero-result: count 0, no rows, the query text and a status message, in both
\* implementations.
C26_ExecutionFailedStructured ==
    ExecutionFailed =>
        /\ ~lastCall.raised
        /\ CallResultData # None
        /\ Get(CallResultData, "count", -1) = 0
        /\ Get(CallResultData, "results", <<0>>) = <<>>
        /\ Get(CallResultData, "query", <<>>) = lastCall.query
        /\ Get(CallResultData, "message", <<>>) # <<>>

\* The message is an assistant message whose content embeds a query-result
\* payload, and the query text of that payload.
EmbedsPayload(msg) == msg.type = "ai" /\ HasResultMarker(msg.content)
PayloadQuery(msg) ==
    IF msg.content.result.fmt = "raw" THEN msg.content.result.query
    ELSE msg.content.result.data.query

\* C27 (as claimed): the serialization of every assistant message of a turn's
\* result whose content embeds a query-result payload stores the literal query
\* text as sql_query, replaces the content by the marker naming that query,
\* and writes no payload.
C27_PayloadCompacted ==
    (graph = "orchestrator_graph" /\ pc = "END") =>
        \A i \in 1..Len(chat_history) :
            EmbedsPayload(chat_history[i]) =>
                LET d == _serialize_message(chat_history[i])
                IN  /\ "sql_query" \in DOMAIN d
                    /\ Get(d, "sql_query", <<>>) = PayloadQuery(chat_history[i])
                    /\ d.content = ExecutedContent(PayloadQuery(chat_history[i]))
                    /\ ~HasResultMarker(d.content)

\* C28 (as claimed): in the serialization of every message of a turn's result,
\* each stored tool-invocation request is a {name, query} pair and nothing
\* more (no call identifier, no argument map), whatever the tool name.
C28_ToolCallsCompacted ==
    (graph = "orchestrator_graph" /\ pc = "END") =>
        \A i \in 1..Len(chat_history) :
            LET tool_calls ==
                    Get(_serialize_message(chat_history[i]), "tool_calls", <<>>)
            IN  \A j \in 1..Len(tool_calls) :
                    DOMAIN tool_calls[j] = {"name", "query"}

\* The positions of a stored history whose entry deserializes.
Readable(stored) == {i \in 1..Len(stored) : ~DeserializeRaises(stored[i])}

\* C29: a load that succeeds returns, for a stored history in which some
\* entries fail to deserialize, the deserialization of every other entry, in
\* stored order, and nothing else: the n-th readable entry is the n-th message
\* the graph is given (for histories not over the ceiling).
C29_SkipOnlyMalformed ==
    (graph = "orchestrator_graph" /\ turnStart # NoTurn
        /\ ~turnStart.load_failed
        /\ Cardinality(Readable(turnStart.stored)) <= HistoryCeiling) =>
        LET stored == turnStart.stored
            past_messages == turnStart.past_messages
        IN  /\ Len(past_messages) = Cardinality(Readable(stored))
            /\ \A i \in Readable(stored) :
                  past_messages[Cardinality({k \in Readable(stored) : k <= i})]
                      = _deserialize_message(stored[i])

\* C29 witness: a turn loaded the stored history of six entries of which two
\* fail to deserialize, and the graph was given the four others, the first and
\* the last being the two summaries.
C29_Witness ==
    /\ graph = "orchestrator_graph"
    /\ turnStart.stored = StoredForeign
    /\ ~turnStart.load_failed
    /\ Cardinality(Readable(turnStart.stored)) = 4
    /\ Len(turnStart.past_messages) = 4
    /\ turnStart.past_messages[1] = AIMessage(TextContent("Found some products."))
    /\ turnStart.past_messages[4] = AIMessage(TextContent("Here are some rings."))
    /\ turn_result = StateResult

\* The entry deserializes and its type is missing or none of human, ai,
\* system.
KnownTypes == {"human", "ai", "system"}
UnknownOrMissingType(message_dict) ==
    /\ ~DeserializeRaises(message_dict)
    /\ Get(message_dict, "type", "missing") \notin KnownTypes

\* The message the graph was given for the readable entry at position i of
\* the stored history.
LoadedMessage(i) ==
    turnStart.past_messages[
        Cardinality({k \in Readable(turnStart.stored) : k <= i})]

\* A turn loaded its stored history, which was not over the ceiling.
HistoryLoaded ==
    /\ graph = "orchestrator_graph"
    /\ turnStart # NoTurn
    /\ ~turnStart.load_failed
    /\ Cardinality(Readable(turnStart.stored)) <= HistoryCeiling

\* C30 (as claimed): there is one fixed default role such that every stored
\* entry whose type is unknown or missing is loaded as a message of that role
\* with the stored content.
C30_FixedDefaultRole ==
    HistoryLoaded =>
        \E role \in KnownTypes :
            \A i \in Readable(turnStart.stored) :
                UnknownOrMissingType(turnStart.stored[i]) =>
                    /\ LoadedMessage(i).type = role
                    /\ LoadedMessage(i).content = turnStart.stored[i].content

\* C30 (amended): a stored entry with an unknown type is loaded as an
\* assistant message, a stored entry without type as a human message, each
\* with the stored content, and neither fails the load.
C30_DefaultRoles ==
    HistoryLoaded =>
        \A i \in Readable(turnStart.stored) :
            UnknownOrMissingType(turnStart.stored[i]) =>
                /\ LoadedMessage(i).type =
                      (IF "type" \in DOMAIN turnStart.stored[i] THEN "ai"
                       ELSE "human")
                /\ LoadedMessage(i).content = turnStart.stored[i].content

\* C30 witness: the stored history with an entry of type "tool" and an entry
\* without type was loaded; the graph was given the first as an assistant
\* message and the second as a human message, and the turn went on to its end.
C30_Witness ==
    /\ HistoryLoaded
    /\ turnStart.stored = StoredForeign
    /\ turnStart.past_messages[2] = AIMessage(TextContent("3 rows found."))
    /\ turnStart.past_messages[3] =
          HumanMessage(TextContent("show me silver rings"))
    /\ turn_result = StateResult

\* ------------------------------------- claims about turns and the session
\* C37: when the write of the updated history fails at the end of a turn, the
\* turn still returns the graph's final state, with the history and response
\* the graph produced, and the session key holds what it held before the
\* failed write.
C37_SaveFailureTolerated ==
    [][(graph = "orchestrator_graph" /\ pc = "END"
            /\ save_outcome' = "set_failed") =>
          /\ turn_result' = StateResult
          /\ chat_history' = chat_history
          /\ response' = response
          /\ store' = store]_vars

\* C37 witness: a turn that produced messages ended with the graph's final
\* state although its save failed, and the session key still holds the
\* stored history the turn found.
C37_Witness ==
    /\ graph = "orchestrator_graph"
    /\ save_outcome = "set_failed"
    /\ turn_result = StateResult
    /\ turnStart.stored # <<>>
    /\ store = turnStart.stored
    /\ Len(chat_history) > Len(turnStart.past_messages)

\* A turn ended with the graph's final state and its save went through, after
\* a load that succeeded, found every stored entry readable and cleared
\* nothing.
TurnSaved ==
    /\ graph = "orchestrator_graph"
    /\ turn_result = StateResult
    /\ save_outcome = "ok"
    /\ ~turnStart.load_failed
    /\ Len(get_messages(turnStart.stored)) = Len(turnStart.stored)
    /\ ~ClearNeeded(get_messages(turnStart.stored))

\* The messages the graph appended in the turn.
ProducedInTurn ==
    SubSeq(chat_history, Len(turnStart.past_messages) + 1, Len(chat_history))

\* C34 (as claimed): after a successful turn without ceiling reset the
\* stored history is as long as the history stored before the turn plus the
\* messages produced in the turn.
C34_NoDuplicates ==
    TurnSaved =>
        Len(store) = Len(turnStart.stored) + Len(ProducedInTurn)

\* C39: every message a turn appends to the history is an assistant message
\* and none is the user's query, and a session whose stored history held only
\* assistant entries before a turn holds only assistant entries after it.
C39_OnlyAssistantAdded ==
    (graph = "orchestrator_graph" /\ turnStart # NoTurn) =>
        /\ \A i \in 1..Len(ProducedInTurn) :
              /\ ProducedInTurn[i].type = "ai"
              /\ ProducedInTurn[i].content.kind # "query"
        /\ (\A i \in 1..Len(turnStart.stored) :
                Get(turnStart.stored[i], "type", "human") = "ai")
              => \A i \in 1..Len(store) : store[i].type = "ai"

\* C39 witness: the second turn of a session that started empty was saved
\* after the graph appended a tool-call response, a query-result message and
\* a summary.
C39_Witness ==
    /\ TurnSaved
    /\ turn = 2
    /\ turnStart.stored # <<>>
    /\ Len(turnStart.stored) < HistoryCeiling
    /\ query # <<>>
    /\ Len(ProducedInTurn) = 3
    /\ \A i \in 1..Len(store) : store[i].type = "ai"

\* What extract_result_content returns when it finds no tool result.
FallbackResult ==
    [result_data |-> [message |-> <<"User query processed successfully">>],
     sql_query |-> <<"Query executed">>]

\* C35 (as claimed): when a turn ended without executing a tool,
\* extract_result_content over the turn's result returns the fallback.
C35_ResultFromThisTurn ==
    (graph = "orchestrator_graph" /\ turn_result = StateResult
        /\ lastCall = NoCall) =>
        extract_result_content(chat_history) = FallbackResult

\* The graph appended a response with tool calls in this turn.
ToolRequestedInTurn ==
    \E i \in 1..Len(ProducedInTurn) :
        Get(ProducedInTurn[i], "tool_calls", <<>>) # <<>>

\* product_filter_node ran in this turn and produced no response: the query
\* was empty or blank, or the model call raised.
NoGeneration ==
    /\ graph = "orchestrator_graph"
    /\ pc \in {"query_executor_node", "summary_node", "END"}
    /\ \/ Strip(query) = <<>>
       \/ "product_filter_node" \in model_errors

\* C36: a tool is executed in a turn only after the model asked for it in
\* that turn; when the query is empty or blank, or the generation raised,
\* nothing is executed and query_executor_node leaves the loaded history and
\* the None response as they were, and for an empty or blank query no
\* generation call was made.
C36_ExecutesOnlyOwnRequest ==
    /\ (graph = "orchestrator_graph" /\ CalledPF) => ToolRequestedInTurn
    /\ NoGeneration =>
          /\ lastCall = NoCall
          /\ ~ToolRequestedInTurn
          /\ pc \in {"query_executor_node", "summary_node"} =>
                (chat_history = turnStart.past_messages /\ response = None)
          /\ Strip(query) = <<>> => "product_filter_node" \notin model_errors

\* C36 witness: the stored history ended with an entry stored with a tool
\* call, the generation of the turn raised, and query_executor_node has run
\* without executing anything.
C36_Witness ==
    /\ NoGeneration
    /\ pc = "summary_node"
    /\ turnStart.stored = StoredToolCallLast
    /\ ~turnStart.load_failed
    /\ Len(chat_history) = 2
    /\ "product_filter_node" \in model_errors
    /\ lastCall = NoCall

\* ------------------------------------------------- claims about windowing
\* C38 (as claimed): when the executed query holds a limit clause with a
\* number N and the data store returned at most N rows, the result has
\* has_more false and total_available equal to the number of rows returned
\* (the fields read as extract_result_content reads them).
C38_BoundedNeverMore ==
    (CallSucceeded /\ LimitClauses # {}
        /\ Len(lastCall.fetched)
              <= WordNumValue(Upper(lastCall.query), kwLIMIT)) =>
        LET d == lastCall.ret.data
        IN  /\ ~Get(d, "has_more", FALSE)
            /\ Get(d, "total_available", d.count) = Len(lastCall.fetched)

\* The QueryResult as a function of the query text and the fetched rows
\* alone.
WindowOf(q, rows) ==
    LET total == Len(rows)
        shown == Min(PF_ResultLimit(q, total), total)
    IN  [count |-> total,
         results |-> [i \in 1..shown |-> rows[i]],
         query |-> q,
         message |-> <<"Query executed successfully. Found ", total,
                       " total results. Showing ", shown, " results.">>,
         total_available |-> total,
         showing |-> shown,
         has_more |-> total > shown]

\* C32: the QueryResult of every windowed call is the value of one function of
\* the query text and the fetched rows, whatever the request text, the turn
\* and the calls and history before it: the same arguments give the same
\* rows, counts, message and has_more.
C32_WindowingDeterministic ==
    Windowed => lastCall.ret.data = WindowOf(lastCall.query, lastCall.fetched)

\* C32 witness: the second turn of a session executed the query text that an
\* earlier turn had executed (its result message is in the loaded history),
\* and rows were windowed.
C32_Witness ==
    /\ Windowed
    /\ turn = 2
    /\ lastCall.fetched # <<>>
    /\ \E i \in 1..Len(turnStart.past_messages) :
          /\ HasResultMarker(turnStart.past_messages[i].content)
          /\ RecordQuery(turnStart.past_messages[i]) = lastCall.query
    /\ lastCall.ret.data = WindowOf(lastCall.query, lastCall.fetched)

\* ------------------------------------------------ claims about error responses
\* The texts of the exceptions of this model (str(e)).
ExceptionTexts == {"KeyError", "IndexError", "model", "redis"}

\* What the caller received for the request is an error response: the error
\* dictionary of invoke_orchestrator or the HTTP error of chat_endpoint.
ErrorReturned ==
    Get(turn_result, "kind", "none") \in {"error", "http_error"}

\* C33 (as claimed): the error response a caller receives for an unexpected
\* exception holds no exception text.
C33_GenericError ==
    ErrorReturned =>
        /\ Get(turn_result, "error", "") \notin ExceptionTexts
        /\ \A i \in 1..Len(Get(turn_result, "detail", <<>>)) :
              turn_result.detail[i] \notin ExceptionTexts

\* ------------------------------------------------ claims about concurrent turns
\* Both concurrent turns have returned.
BothTurnsDone ==
    /\ workers # <<>>
    /\ \A w \in ConcurrentTurns : workers[w].pc = "done"

\* The stored history holds none of the messages the turn of worker w
\* produced.
TurnLost(w) ==
    /\ workers[w].produced # <<>>
    /\ \A i \in 1..Len(store) :
          \A k \in 1..Len(workers[w].produced) :
              store[i] # _serialize_message(workers[w].produced[k])

\* C31: when two turns of one session ran concurrently and both returned,
\* the stored history is exactly the value one of the two turns wrote.
C31_LastWriteWins ==
    BothTurnsDone =>
        \E w \in ConcurrentTurns : store = workers[w].wrote

\* C31 witness: both turns returned and the stored history, written by the
\* second turn, holds no message of the first turn.
C31_Witness ==
    /\ BothTurnsDone
    /\ store = workers[2].wrote
    /\ TurnLost(1)
    /\ ~TurnLost(2)

====
